---- MODULE Spec2Model ----
(***************************************************************************)
(* A model of the rusty-riscv-ave RV64 emulator: the hart (Cpu::execute,   *)
(* Cpu::handle_exception, the run loop of main), the bus with its DRAM and *)
(* the 16550 UART with its receive thread.                                 *)
(*                                                                         *)
(* 64-bit values are modelled exactly, as the set of the positions of      *)
(* their 1 bits (TLC's integers are 32 bits wide): `&` is \cap, `|` is     *)
(* \cup, a shift maps positions, and addition is a ripple-carry adder.     *)
(***************************************************************************)
EXTENDS Integers, Sequences, FiniteSets, TLC

(***************************************************************************)
(* Bounds of the model.                                                    *)
(***************************************************************************)
\* Iterations of the run loop that are explored.
MaxSteps == 2
\* Bytes the host delivers on stdin before it goes quiet.
MaxInput == 2
\* Deposits the history counts as not yet answered by is_interrupting.
MaxFresh == 2

(***************************************************************************)
(* u64 arithmetic.                                                         *)
(***************************************************************************)
Bit == 0..63

Zero == {}

\* The u64 of a small natural number (below 2^31).
W(n) == {i \in 0..30 : (n \div (2^i)) % 2 = 1}

RECURSIVE SumPow(_)
SumPow(s) == IF s = {} THEN 0
             ELSE LET i == CHOOSE x \in s : TRUE IN (2^i) + SumPow(s \ {i})

\* (w >> lo) & (2^n - 1) as a number, n <= 30.
RECURSIVE Field(_, _, _)
Field(w, lo, n) == IF n = 0 THEN 0
                   ELSE (IF (lo + n - 1) \in w THEN 2^(n - 1) ELSE 0) + Field(w, lo, n - 1)

Shl(w, k) == {i + k : i \in w} \cap Bit

Shr(w, k) == {i - k : i \in {j \in w : j >= k}}

Not(w) == Bit \ w

\* w as iN as i64 as u64: keep the low n bits and copy bit n-1 upwards.
Sext(w, n) == IF (n - 1) \in w THEN (w \cap (0..(n - 1))) \cup (n..63)
              ELSE w \cap (0..(n - 1))

\* w as uN as u64.
Zext(w, n) == w \cap (0..(n - 1))

\* (w as i64) >> k.
Sar(w, k) == IF 63 \in w THEN Shr(w, k) \cup ((64 - k)..63) ELSE Shr(w, k)

\* a + b modulo 2^64: the sum without carries, plus the carries one place up,
\* until no carry is left.
RECURSIVE wrapping_add(_, _)
wrapping_add(a, b) == IF b = {} THEN a
                      ELSE wrapping_add((a \ b) \cup (b \ a), Shl(a \cap b, 1))

\* a - b modulo 2^64: a + !b + 1.
wrapping_sub(a, b) == wrapping_add(wrapping_add(a, Not(b)), {0})

RECURSIVE MulC(_, _, _)
MulC(a, b, i) == IF i > 63 THEN {}
                 ELSE IF i \in b THEN wrapping_add(Shl(a, i), MulC(a, b, i + 1))
                 ELSE MulC(a, b, i + 1)

wrapping_mul(a, b) == MulC(a, b, 0)

\* a < b as u64: b has a bit that a lacks, above every bit that a has and b lacks.
ULt(a, b) == \E i \in b \ a : \A j \in a \ b : j < i

ULe(a, b) == a = b \/ ULt(a, b)

\* (a as i64) < (b as i64): the sign bits flipped, then unsigned.
SLt(a, b) == LET fa == IF 63 \in a THEN a \ {63} ELSE a \cup {63}
                 fb == IF 63 \in b THEN b \ {63} ELSE b \cup {63}
             IN ULt(fa, fb)

(***************************************************************************)
(* Sparse arrays: a function on the indices that hold a value other than   *)
(* the default 0, so that equal arrays are equal states.                   *)
(***************************************************************************)
Get(f, k, d) == IF k \in DOMAIN f THEN f[k] ELSE d

Put(f, k, v, d) ==
    IF v = d THEN [x \in (DOMAIN f) \ {k} |-> f[x]]
    ELSE [x \in (DOMAIN f) \cup {k} |-> IF x = k THEN v ELSE f[x]]

Empty == [x \in {} |-> 0]

(***************************************************************************)
(* param.rs: the address map and the UART registers, as section 3 of the   *)
(* design gives them.                                                      *)
(***************************************************************************)
DRAM_BASE == {31}                       \* 0x8000_0000
DRAM_SIZE == 134217728                  \* 128 MiB
DRAM_END == {31} \cup (0..26)           \* DRAM_BASE + DRAM_SIZE - 1
CLINT_BASE == {25}                      \* 0x0200_0000
CLINT_END == {25} \cup (0..15)          \* 0x0200_FFFF
PLIC_BASE == {26, 27}                   \* 0x0C00_0000
PLIC_END == {26, 27, 21} \cup (0..15)   \* 0x0C20_FFFF
UART_BASE == {28}                       \* 0x1000_0000
UART_END == {28} \cup (0..7)            \* 0x1000_00FF
VIRTIO_BASE == {28, 12}                 \* 0x1000_1000
VIRTIO_END == {28, 12} \cup (0..7)      \* 0x1000_10FF
UART_RHR == 0
UART_THR == 0
UART_LSR == 5
MASK_UART_LSR_RX == 1
MASK_UART_LSR_TX == 2

(***************************************************************************)
(* csr.rs, as section 4.2 of the design gives it.  The CSR numbers are     *)
(* those of the privileged architecture.                                   *)
(***************************************************************************)
SSTATUS == 256
SIE == 260
STVEC == 261
SEPC == 321
SCAUSE == 322
STVAL == 323
SIP == 324
MSTATUS == 768
MEDELEG == 770
MIDELEG == 771
MIE == 772
MTVEC == 773
MSCRATCH == 832
MEPC == 833
MCAUSE == 834
MTVAL == 835
MIP == 836
MVENDORID == 3857
MARCHID == 3858
MIMPID == 3859
MHARTID == 3860

MASK_SIE == {1}
MASK_MIE == {3}
MASK_SPIE == {5}
MASK_MPIE == {7}
MASK_SPP == {8}
MASK_MPP == {11, 12}
MASK_MPRV == {17}
\* SIE | SPIE | UBE | SPP | VS | FS | XS | SUM | MXR | UXL | SD
MASK_SSTATUS == MASK_SIE \cup MASK_SPIE \cup {6} \cup MASK_SPP \cup {9, 10}
                \cup {13, 14} \cup {15, 16} \cup {18} \cup {19}
                \cup {32, 33} \cup {63}

ReadOnlyZero == {MVENDORID, MARCHID, MIMPID, MHARTID}

\* Csr::load
Csr_load(c, addr) ==
    CASE addr = SSTATUS -> Get(c, MSTATUS, Zero) \cap MASK_SSTATUS
      [] addr = SIE -> Get(c, MIE, Zero) \cap Get(c, MIDELEG, Zero)
      [] addr = SIP -> Get(c, MIP, Zero) \cap Get(c, MIDELEG, Zero)
      [] addr \in ReadOnlyZero -> Zero
      [] OTHER -> Get(c, addr, Zero)

\* Csr_store with sstatus written as the whole of mstatus.
Csr_store_unmasked(c, addr, v) ==
    CASE addr = SSTATUS -> Put(c, MSTATUS, v, Zero)
      [] addr = SIE ->
             Put(c, MIE, (Get(c, MIE, Zero) \ Get(c, MIDELEG, Zero))
                         \cup (v \cap Get(c, MIDELEG, Zero)), Zero)
      [] addr = SIP ->
             Put(c, MIP, (Get(c, MIP, Zero) \ Get(c, MIDELEG, Zero))
                         \cup (v \cap Get(c, MIDELEG, Zero)), Zero)
      [] addr \in ReadOnlyZero -> c
      [] OTHER -> Put(c, addr, v, Zero)

\* Csr::store
Csr_store(c, addr, v) ==
    CASE addr = SSTATUS ->
             Put(c, MSTATUS, (Get(c, MSTATUS, Zero) \ MASK_SSTATUS)
                             \cup (v \cap MASK_SSTATUS), Zero)
      [] addr = SIE ->
             Put(c, MIE, (Get(c, MIE, Zero) \ Get(c, MIDELEG, Zero))
                         \cup (v \cap Get(c, MIDELEG, Zero)), Zero)
      [] addr = SIP ->
             Put(c, MIP, (Get(c, MIP, Zero) \ Get(c, MIDELEG, Zero))
                         \cup (v \cap Get(c, MIDELEG, Zero)), Zero)
      [] addr \in ReadOnlyZero -> c
      [] OTHER -> Put(c, addr, v, Zero)

\* Csr::is_medelegated
is_medelegated(c, code) == code \in Get(c, MEDELEG, Zero)

(***************************************************************************)
(* exception.rs: an exception is its variant and the value it carries.     *)
(* code(), value() and is_fatal() are as section 7 of the design gives     *)
(* them.                                                                   *)
(***************************************************************************)
Exc(variant, val) == [variant |-> variant, val |-> val]

Exception_code(e) ==
    CASE e.variant = "InstructionAddressMisaligned" -> 0
      [] e.variant = "InstructionAccessFault" -> 1
      [] e.variant = "IllegalInstruction" -> 2
      [] e.variant = "Breakpoint" -> 3
      [] e.variant = "LoadAddressMisaligned" -> 4
      [] e.variant = "LoadAccessFault" -> 5
      [] e.variant = "StoreAMOAddressMisaligned" -> 6
      [] e.variant = "StoreAMOAccessFault" -> 7
      [] e.variant = "EnvironmentCallFromUMode" -> 8
      [] e.variant = "EnvironmentCallFromSMode" -> 9
      [] e.variant = "EnvironmentCallFromMMode" -> 11
      [] e.variant = "InstructionPageFault" -> 12
      [] e.variant = "LoadPageFault" -> 13
      [] e.variant = "StoreAMOPageFault" -> 15

Exception_value(e) == e.val

Exception_is_fatal(e) ==
    e.variant \in {"InstructionAccessFault", "LoadAccessFault", "StoreAMOAccessFault"}

(***************************************************************************)
(* cpu.rs: the privilege modes.                                            *)
(***************************************************************************)
User == 0
Supervisor == 1
Machine == 3
Modes == {User, Supervisor, Machine}

\* What Mode::new yields where it panics ("Invalid mode value").
ModePanic == -1

\* Mode::new
Mode_new(value) == IF value \in Modes THEN value ELSE ModePanic

(***************************************************************************)
(* dram.rs: the bytes of DRAM, indexed from DRAM_BASE; a byte the array    *)
(* does not hold is 0.                                                     *)
(***************************************************************************)
ByteBits(b) == {j \in 0..7 : (b \div (2^j)) % 2 = 1}

\* What a bus access yields: Ok(val), Err(e), or a panic of the emulator;
\* `bus` is the state of the devices after it.
NoExc == Exc("none", Zero)
BusOk(bus, val) == [tag |-> "Ok", val |-> val, e |-> NoExc, bus |-> bus]
BusErr(bus, e) == [tag |-> "Err", val |-> Zero, e |-> e, bus |-> bus]
BusPanic(bus) == [tag |-> "panic", val |-> Zero, e |-> NoExc, bus |-> bus]

\* (addr - DRAM_BASE) as usize, for an addr in DRAM_BASE..=DRAM_END.
DramIndex(addr) == SumPow(addr \ {31})

\* Dram_load with the bytes assembled most significant first.
Dram_load_big_endian(bus, addr, size) ==
    IF size \notin {8, 16, 32, 64} THEN BusErr(bus, Exc("LoadAccessFault", addr))
    ELSE LET nbytes == size \div 8
             index == DramIndex(addr)
         IN IF index + nbytes - 1 >= DRAM_SIZE THEN BusPanic(bus)
            ELSE BusOk(bus, UNION {{8 * (nbytes - 1 - i) + j
                                      : j \in ByteBits(Get(bus.dram, index + i, 0))}
                                   : i \in 0..(nbytes - 1)})

\* Dram::load
Dram_load(bus, addr, size) ==
    IF size \notin {8, 16, 32, 64} THEN BusErr(bus, Exc("LoadAccessFault", addr))
    ELSE LET nbytes == size \div 8
             index == DramIndex(addr)
         IN IF index + nbytes - 1 >= DRAM_SIZE THEN BusPanic(bus)
            ELSE BusOk(bus, UNION {{8 * i + j : j \in ByteBits(Get(bus.dram, index + i, 0))}
                                   : i \in 0..(nbytes - 1)})

\* Dram::store
Dram_store(bus, addr, size, value) ==
    IF size \notin {8, 16, 32, 64} THEN BusErr(bus, Exc("StoreAMOAccessFault", addr))
    ELSE LET nbytes == size \div 8
             index == DramIndex(addr)
             touched == {index + i : i \in 0..(nbytes - 1)}
             byte_at(x) == IF x \in touched THEN Field(value, 8 * (x - index), 8)
                           ELSE bus.dram[x]
             dom == {x \in (DOMAIN bus.dram) \cup touched : byte_at(x) # 0}
         IN IF index + nbytes - 1 >= DRAM_SIZE THEN BusPanic(bus)
            ELSE BusOk([bus EXCEPT !.dram = [x \in dom |-> byte_at(x)]], Zero)

(***************************************************************************)
(* uart.rs: the guest's side.  `uart` is the register array, `rx_pc` the   *)
(* place of the receive thread: notify_one moves a thread that is blocked  *)
(* in cvar.wait to "woken".                                                *)
(***************************************************************************)
ByteAnd(a, b) == SumPow(ByteBits(a) \cap ByteBits(b))
ByteOr(a, b) == SumPow(ByteBits(a) \cup ByteBits(b))
ByteAndNot(a, b) == SumPow(ByteBits(a) \ ByteBits(b))

UartIndex(addr) == SumPow(addr \ {28})

notify_one(rx) == IF rx = "wait" THEN "woken" ELSE rx

\* Uart_load with the size checked after the read of RHR has notified the
\* thread and cleared the RX bit.
Uart_load_late_check(bus, addr, size) ==
    LET index == UartIndex(addr)
        read == [bus EXCEPT
                   !.rx_pc = notify_one(bus.rx_pc),
                   !.uart = Put(bus.uart, UART_LSR,
                                ByteAndNot(Get(bus.uart, UART_LSR, 0),
                                           MASK_UART_LSR_RX), 0)]
    IN CASE index = UART_RHR /\ size # 8 -> BusErr(read, Exc("LoadAccessFault", addr))
         [] index = UART_RHR -> BusOk(read, W(Get(bus.uart, UART_RHR, 0)))
         [] size # 8 -> BusErr(bus, Exc("LoadAccessFault", addr))
         [] OTHER -> BusOk(bus, W(Get(bus.uart, index, 0)))

\* Uart::load
Uart_load(bus, addr, size) ==
    IF size # 8 THEN BusErr(bus, Exc("LoadAccessFault", addr))
    ELSE LET index == UartIndex(addr)
         IN IF index = UART_RHR
            THEN BusOk([bus EXCEPT
                          !.rx_pc = notify_one(bus.rx_pc),
                          !.uart = Put(bus.uart, UART_LSR,
                                       ByteAndNot(Get(bus.uart, UART_LSR, 0),
                                                  MASK_UART_LSR_RX), 0)],
                       W(Get(bus.uart, UART_RHR, 0)))
            ELSE BusOk(bus, W(Get(bus.uart, index, 0)))

\* Uart::store
Uart_store(bus, addr, size, value) ==
    IF size # 8 THEN BusErr(bus, Exc("StoreAMOAccessFault", addr))
    ELSE LET index == UartIndex(addr)
         IN IF index = UART_THR
            THEN BusOk(bus, Zero)
            ELSE BusOk([bus EXCEPT !.uart = Put(bus.uart, index, Field(value, 0, 8), 0)],
                       Zero)

(***************************************************************************)
(* bus.rs                                                                  *)
(***************************************************************************)
InRange(addr, lo, hi) == ULe(lo, addr) /\ ULe(addr, hi)

\* Clint, Plic and VirtioBlock keep registers no property here reads: a load
\* yields 0 and a store is accepted.
Device_load(bus, addr, size) == BusOk(bus, Zero)
Device_store(bus, addr, size, value) == BusOk(bus, Zero)

\* Bus_load with the fault of a store returned outside the mapped ranges.
Bus_load_store_fault(bus, addr, size) ==
    CASE InRange(addr, CLINT_BASE, CLINT_END) -> Device_load(bus, addr, size)
      [] InRange(addr, PLIC_BASE, PLIC_END) -> Device_load(bus, addr, size)
      [] InRange(addr, DRAM_BASE, DRAM_END) -> Dram_load(bus, addr, size)
      [] InRange(addr, UART_BASE, UART_END) -> Uart_load(bus, addr, size)
      [] InRange(addr, VIRTIO_BASE, VIRTIO_END) -> Device_load(bus, addr, size)
      [] OTHER -> BusErr(bus, Exc("StoreAMOAccessFault", addr))

\* Bus::load
Bus_load(bus, addr, size) ==
    CASE InRange(addr, CLINT_BASE, CLINT_END) -> Device_load(bus, addr, size)
      [] InRange(addr, PLIC_BASE, PLIC_END) -> Device_load(bus, addr, size)
      [] InRange(addr, DRAM_BASE, DRAM_END) -> Dram_load(bus, addr, size)
      [] InRange(addr, UART_BASE, UART_END) -> Uart_load(bus, addr, size)
      [] InRange(addr, VIRTIO_BASE, VIRTIO_END) -> Device_load(bus, addr, size)
      [] OTHER -> BusErr(bus, Exc("LoadAccessFault", addr))

\* Bus::store
Bus_store(bus, addr, size, value) ==
    CASE InRange(addr, CLINT_BASE, CLINT_END) -> Device_store(bus, addr, size, value)
      [] InRange(addr, PLIC_BASE, PLIC_END) -> Device_store(bus, addr, size, value)
      [] InRange(addr, DRAM_BASE, DRAM_END) -> Dram_store(bus, addr, size, value)
      [] InRange(addr, UART_BASE, UART_END) -> Uart_store(bus, addr, size, value)
      [] InRange(addr, VIRTIO_BASE, VIRTIO_END) -> Device_store(bus, addr, size, value)
      [] OTHER -> BusErr(bus, Exc("StoreAMOAccessFault", addr))

(***************************************************************************)
(* cpu.rs: Cpu::execute.  `c` is the hart: [regs, pc, mode, csr, bus].     *)
(* The result is the hart after the call and what the call returned:       *)
(* Ok(new_pc), Err(e), or a panic of the emulator.                         *)
(***************************************************************************)
RetOk(c, new_pc) == [cpu |-> c, tag |-> "Ok", new_pc |-> new_pc, e |-> NoExc]
RetErr(c, e) == [cpu |-> c, tag |-> "Err", new_pc |-> Zero, e |-> e]
RetPanic(c) == [cpu |-> c, tag |-> "panic", new_pc |-> Zero, e |-> NoExc]


\* Cpu::step
step(c) == RetOk(c, wrapping_add(c.pc, W(4)))

\* self.regs[rd] = v; self.step()
WriteRd(c, rd, v) == step([c EXCEPT !.regs[rd] = v])

IllegalInstruction(c, inst) == RetErr(c, Exc("IllegalInstruction", inst))

\* let val = self.load(addr, size)?; self.regs[rd] = ext(val); self.step()
LoadTo(c, rd, addr, size, signed) ==
    LET r == Bus_load(c.bus, addr, size)
        c1 == [c EXCEPT !.bus = r.bus]
    IN CASE r.tag = "Err" -> RetErr(c1, r.e)
         [] r.tag = "panic" -> RetPanic(c1)
         [] OTHER -> WriteRd(c1, rd, IF signed THEN Sext(r.val, size) ELSE r.val)

\* exec_load with the immediate zero-extended.
exec_load_zext_imm(c, inst, rd, rs1, funct3) ==
    LET imm == Shr(Zext(inst, 32), 20)
        addr == wrapping_add(c.regs[rs1], imm)
    IN CASE funct3 = 0 -> LoadTo(c, rd, addr, 8, TRUE)
         [] funct3 = 1 -> LoadTo(c, rd, addr, 16, TRUE)
         [] funct3 = 2 -> LoadTo(c, rd, addr, 32, TRUE)
         [] funct3 = 3 -> LoadTo(c, rd, addr, 64, FALSE)
         [] funct3 = 4 -> LoadTo(c, rd, addr, 8, FALSE)
         [] funct3 = 5 -> LoadTo(c, rd, addr, 16, FALSE)
         [] funct3 = 6 -> LoadTo(c, rd, addr, 32, FALSE)
         [] OTHER -> IllegalInstruction(c, inst)

\* opcode 0x03
exec_load(c, inst, rd, rs1, funct3) ==
    LET imm == Sar(Sext(inst, 32), 20)
        addr == wrapping_add(c.regs[rs1], imm)
    IN CASE funct3 = 0 -> LoadTo(c, rd, addr, 8, TRUE)
         [] funct3 = 1 -> LoadTo(c, rd, addr, 16, TRUE)
         [] funct3 = 2 -> LoadTo(c, rd, addr, 32, TRUE)
         [] funct3 = 3 -> LoadTo(c, rd, addr, 64, FALSE)
         [] funct3 = 4 -> LoadTo(c, rd, addr, 8, FALSE)
         [] funct3 = 5 -> LoadTo(c, rd, addr, 16, FALSE)
         [] funct3 = 6 -> LoadTo(c, rd, addr, 32, FALSE)
         [] OTHER -> IllegalInstruction(c, inst)

\* exec_op_imm with srai shifting in zeros.
exec_op_imm_srai_logical(c, inst, rd, rs1, funct3, funct7) ==
    LET imm == Sar(Sext(inst \cap (20..31), 32), 20)
        shamt == Field(imm, 0, 6)
        a == c.regs[rs1]
    IN CASE funct3 = 0 -> WriteRd(c, rd, wrapping_add(a, imm))
         [] funct3 = 1 -> WriteRd(c, rd, Shl(a, shamt))
         [] funct3 = 2 -> WriteRd(c, rd, IF SLt(a, imm) THEN {0} ELSE Zero)
         [] funct3 = 3 -> WriteRd(c, rd, IF ULt(a, imm) THEN {0} ELSE Zero)
         [] funct3 = 4 -> WriteRd(c, rd, (a \ imm) \cup (imm \ a))
         [] funct3 = 5 ->
                CASE funct7 \div 2 = 0 -> WriteRd(c, rd, Shr(a, shamt))
                  [] funct7 \div 2 = 16 -> WriteRd(c, rd, Shr(a, shamt))
                  [] OTHER -> IllegalInstruction(c, inst)
         [] funct3 = 6 -> WriteRd(c, rd, a \cup imm)
         [] funct3 = 7 -> WriteRd(c, rd, a \cap imm)
         [] OTHER -> IllegalInstruction(c, inst)

\* opcode 0x13
exec_op_imm(c, inst, rd, rs1, funct3, funct7) ==
    LET imm == Sar(Sext(inst \cap (20..31), 32), 20)
        shamt == Field(imm, 0, 6)
        a == c.regs[rs1]
    IN CASE funct3 = 0 -> WriteRd(c, rd, wrapping_add(a, imm))
         [] funct3 = 1 -> WriteRd(c, rd, Shl(a, shamt))
         [] funct3 = 2 -> WriteRd(c, rd, IF SLt(a, imm) THEN {0} ELSE Zero)
         [] funct3 = 3 -> WriteRd(c, rd, IF ULt(a, imm) THEN {0} ELSE Zero)
         [] funct3 = 4 -> WriteRd(c, rd, (a \ imm) \cup (imm \ a))
         [] funct3 = 5 ->
                CASE funct7 \div 2 = 0 -> WriteRd(c, rd, Shr(a, shamt))
                  [] funct7 \div 2 = 16 -> WriteRd(c, rd, Sar(a, shamt))
                  [] OTHER -> IllegalInstruction(c, inst)
         [] funct3 = 6 -> WriteRd(c, rd, a \cup imm)
         [] funct3 = 7 -> WriteRd(c, rd, a \cap imm)
         [] OTHER -> IllegalInstruction(c, inst)

\* opcode 0x1b
exec_op_imm_32(c, inst, rd, rs1, funct3, funct7) ==
    LET imm == Sar(Sext(inst, 32), 20)
        shamt == Field(imm, 0, 5)
        a == c.regs[rs1]
    IN CASE funct3 = 0 -> WriteRd(c, rd, Sext(wrapping_add(a, imm), 32))
         [] funct3 = 1 -> WriteRd(c, rd, Sext(Shl(a, shamt), 32))
         [] funct3 = 5 ->
                CASE funct7 = 0 -> WriteRd(c, rd, Sext(Shr(Zext(a, 32), shamt), 32))
                  [] funct7 = 32 -> WriteRd(c, rd, Sar(Sext(a, 32), shamt))
                  [] OTHER -> IllegalInstruction(c, inst)
         [] OTHER -> IllegalInstruction(c, inst)

\* self.store(addr, size, self.regs[rs2])?; self.step()
StoreFrom(c, rs2, addr, size) ==
    LET r == Bus_store(c.bus, addr, size, c.regs[rs2])
        c1 == [c EXCEPT !.bus = r.bus]
    IN CASE r.tag = "Err" -> RetErr(c1, r.e)
         [] r.tag = "panic" -> RetPanic(c1)
         [] OTHER -> step(c1)

\* opcode 0x23; a funct3 of 4..7 reaches unreachable!()
exec_store(c, inst, rs1, rs2, funct3) ==
    LET imm == Sar(Sext(inst \cap (25..31), 32), 20) \cup Zext(Shr(inst, 7), 5)
        addr == wrapping_add(c.regs[rs1], imm)
    IN CASE funct3 = 0 -> StoreFrom(c, rs2, addr, 8)
         [] funct3 = 1 -> StoreFrom(c, rs2, addr, 16)
         [] funct3 = 2 -> StoreFrom(c, rs2, addr, 32)
         [] funct3 = 3 -> StoreFrom(c, rs2, addr, 64)
         [] OTHER -> RetPanic(c)

\* exec_op with the shift amount taken from rs2[6:0].
exec_op_shamt7(c, inst, rd, rs1, rs2, funct3, funct7) ==
    LET a == c.regs[rs1]
        b == c.regs[rs2]
        shamt == Field(b, 0, 7)
    IN CASE funct3 = 0 /\ funct7 = 0 -> WriteRd(c, rd, wrapping_add(a, b))
         [] funct3 = 0 /\ funct7 = 1 -> WriteRd(c, rd, wrapping_mul(a, b))
         [] funct3 = 0 /\ funct7 = 32 -> WriteRd(c, rd, wrapping_sub(a, b))
         [] funct3 = 1 /\ funct7 = 0 -> WriteRd(c, rd, Shl(a, shamt))
         [] funct3 = 2 /\ funct7 = 0 -> WriteRd(c, rd, IF SLt(a, b) THEN {0} ELSE Zero)
         [] funct3 = 3 /\ funct7 = 0 -> WriteRd(c, rd, IF ULt(a, b) THEN {0} ELSE Zero)
         [] funct3 = 4 /\ funct7 = 0 -> WriteRd(c, rd, (a \ b) \cup (b \ a))
         [] funct3 = 5 /\ funct7 = 0 -> WriteRd(c, rd, Shr(a, shamt))
         [] funct3 = 5 /\ funct7 = 32 -> WriteRd(c, rd, Sar(a, shamt))
         [] funct3 = 6 /\ funct7 = 0 -> WriteRd(c, rd, a \cup b)
         [] funct3 = 7 /\ funct7 = 0 -> WriteRd(c, rd, a \cap b)
         [] OTHER -> IllegalInstruction(c, inst)

\* opcode 0x33
exec_op(c, inst, rd, rs1, rs2, funct3, funct7) ==
    LET a == c.regs[rs1]
        b == c.regs[rs2]
        shamt == Field(b, 0, 6)
    IN CASE funct3 = 0 /\ funct7 = 0 -> WriteRd(c, rd, wrapping_add(a, b))
         [] funct3 = 0 /\ funct7 = 1 -> WriteRd(c, rd, wrapping_mul(a, b))
         [] funct3 = 0 /\ funct7 = 32 -> WriteRd(c, rd, wrapping_sub(a, b))
         [] funct3 = 1 /\ funct7 = 0 -> WriteRd(c, rd, Shl(a, shamt))
         [] funct3 = 2 /\ funct7 = 0 -> WriteRd(c, rd, IF SLt(a, b) THEN {0} ELSE Zero)
         [] funct3 = 3 /\ funct7 = 0 -> WriteRd(c, rd, IF ULt(a, b) THEN {0} ELSE Zero)
         [] funct3 = 4 /\ funct7 = 0 -> WriteRd(c, rd, (a \ b) \cup (b \ a))
         [] funct3 = 5 /\ funct7 = 0 -> WriteRd(c, rd, Shr(a, shamt))
         [] funct3 = 5 /\ funct7 = 32 -> WriteRd(c, rd, Sar(a, shamt))
         [] funct3 = 6 /\ funct7 = 0 -> WriteRd(c, rd, a \cup b)
         [] funct3 = 7 /\ funct7 = 0 -> WriteRd(c, rd, a \cap b)
         [] OTHER -> IllegalInstruction(c, inst)

\* exec_op_32 with the 32-bit results zero-extended.
exec_op_32_zext(c, inst, rd, rs1, rs2, funct3, funct7) ==
    LET a == c.regs[rs1]
        b == c.regs[rs2]
        shamt == Field(b, 0, 5)
    IN CASE funct3 = 0 /\ funct7 = 0 -> WriteRd(c, rd, Zext(wrapping_add(a, b), 32))
         [] funct3 = 0 /\ funct7 = 32 -> WriteRd(c, rd, Zext(wrapping_sub(a, b), 32))
         [] funct3 = 1 /\ funct7 = 0 -> WriteRd(c, rd, Zext(Shl(Zext(a, 32), shamt), 32))
         [] funct3 = 5 /\ funct7 = 0 -> WriteRd(c, rd, Zext(Shr(Zext(a, 32), shamt), 32))
         [] funct3 = 5 /\ funct7 = 32 -> WriteRd(c, rd, Zext(Sar(Sext(a, 32), shamt), 32))
         [] OTHER -> IllegalInstruction(c, inst)

\* opcode 0x3b
exec_op_32(c, inst, rd, rs1, rs2, funct3, funct7) ==
    LET a == c.regs[rs1]
        b == c.regs[rs2]
        shamt == Field(b, 0, 5)
    IN CASE funct3 = 0 /\ funct7 = 0 -> WriteRd(c, rd, Sext(wrapping_add(a, b), 32))
         [] funct3 = 0 /\ funct7 = 32 -> WriteRd(c, rd, Sext(wrapping_sub(a, b), 32))
         [] funct3 = 1 /\ funct7 = 0 -> WriteRd(c, rd, Sext(Shl(Zext(a, 32), shamt), 32))
         [] funct3 = 5 /\ funct7 = 0 -> WriteRd(c, rd, Sext(Shr(Zext(a, 32), shamt), 32))
         [] funct3 = 5 /\ funct7 = 32 -> WriteRd(c, rd, Sar(Sext(a, 32), shamt))
         [] OTHER -> IllegalInstruction(c, inst)

\* opcode 0x63
exec_branch(c, inst, rs1, rs2, funct3) ==
    LET imm == Sar(Sext(inst \cap {31}, 32), 19)
               \cup Shl(inst \cap {7}, 4)
               \cup (Shr(inst, 20) \cap (5..10))
               \cup (Shr(inst, 7) \cap (1..4))
        a == c.regs[rs1]
        b == c.regs[rs2]
        taken == RetOk(c, wrapping_add(c.pc, imm))
    IN CASE funct3 = 0 -> IF a = b THEN taken ELSE step(c)
         [] funct3 = 1 -> IF a # b THEN taken ELSE step(c)
         [] funct3 = 4 -> IF SLt(a, b) THEN taken ELSE step(c)
         [] funct3 = 5 -> IF ~SLt(a, b) THEN taken ELSE step(c)
         [] funct3 = 6 -> IF ULt(a, b) THEN taken ELSE step(c)
         [] funct3 = 7 -> IF ~ULt(a, b) THEN taken ELSE step(c)
         [] OTHER -> IllegalInstruction(c, inst)

\* exec_jalr with rd written before rs1 is read.
exec_jalr_rd_first(c, inst, rd, rs1) ==
    LET t == wrapping_add(c.pc, W(4))
        imm == Sar(Sext(inst \cap (20..31), 32), 20)
        c1 == [c EXCEPT !.regs[rd] = t]
        new_pc == wrapping_add(c1.regs[rs1], imm) \ {0}
    IN RetOk(c1, new_pc)

\* opcode 0x67
exec_jalr(c, inst, rd, rs1) ==
    LET t == wrapping_add(c.pc, W(4))
        imm == Sar(Sext(inst \cap (20..31), 32), 20)
        new_pc == wrapping_add(c.regs[rs1], imm) \ {0}
    IN RetOk([c EXCEPT !.regs[rd] = t], new_pc)

\* exec_jal with imm[20] left where it is instead of sign-extended.
exec_jal_zext(c, inst, rd) ==
    LET imm == Shr(inst \cap {31}, 11)
               \cup (inst \cap (12..19))
               \cup (Shr(inst, 9) \cap {11})
               \cup (Shr(inst, 20) \cap (1..10))
    IN RetOk([c EXCEPT !.regs[rd] = wrapping_add(c.pc, W(4))], wrapping_add(c.pc, imm))

\* opcode 0x6f
exec_jal(c, inst, rd) ==
    LET imm == Sar(Sext(inst \cap {31}, 32), 11)
               \cup (inst \cap (12..19))
               \cup (Shr(inst, 9) \cap {11})
               \cup (Shr(inst, 20) \cap (1..10))
    IN RetOk([c EXCEPT !.regs[rd] = wrapping_add(c.pc, W(4))], wrapping_add(c.pc, imm))

\* exec_sret with SPP left as it was.
exec_sret_keep_spp(c) ==
    LET sstatus == Csr_load(c.csr, SSTATUS)
        mode == Mode_new(Field(sstatus \cap MASK_SPP, 8, 2))
        spie == Shr(sstatus \cap MASK_SPIE, 5)
        s1 == (sstatus \ MASK_SIE) \cup Shl(spie, 1)
        s2 == s1 \cup MASK_SPIE
        csr1 == Csr_store(c.csr, SSTATUS, s2)
        new_pc == Csr_load(csr1, SEPC) \ {0, 1}
    IN RetOk([c EXCEPT !.mode = mode, !.csr = csr1], new_pc)

\* opcode 0x73, funct3 = 0, (rs2, funct7) = (2, 8)
exec_sret(c) ==
    LET sstatus == Csr_load(c.csr, SSTATUS)
        mode == Mode_new(Field(sstatus \cap MASK_SPP, 8, 2))
        spie == Shr(sstatus \cap MASK_SPIE, 5)
        s1 == (sstatus \ MASK_SIE) \cup Shl(spie, 1)
        s2 == s1 \cup MASK_SPIE
        s3 == s2 \ MASK_SPP
        csr1 == Csr_store(c.csr, SSTATUS, s3)
        new_pc == Csr_load(csr1, SEPC) \ {0, 1}
    IN IF mode = ModePanic THEN RetPanic(c)
       ELSE RetOk([c EXCEPT !.mode = mode, !.csr = csr1], new_pc)

\* opcode 0x73, funct3 = 0, (rs2, funct7) = (2, 0x18)
exec_mret(c) ==
    LET mstatus == Csr_load(c.csr, MSTATUS)
        mode == Mode_new(Field(mstatus \cap MASK_MPP, 11, 2))
        mpie == Shr(mstatus \cap MASK_MPIE, 7)
        s1 == (mstatus \ MASK_MIE) \cup Shl(mpie, 3)
        s2 == s1 \cup MASK_MPIE
        s3 == s2 \ MASK_MPP
        s4 == s3 \ MASK_MPRV
        csr1 == Csr_store(c.csr, MSTATUS, s4)
        new_pc == Csr_load(csr1, MEPC) \ {0, 1}
    IN IF mode = ModePanic THEN RetPanic(c)
       ELSE RetOk([c EXCEPT !.mode = mode, !.csr = csr1], new_pc)

\* exec_system with csrrs storing regs[rs1] alone, the value read left out.
exec_system_csrrs_plain(c, inst, rd, rs1, rs2, funct3, funct7) ==
    LET csr_addr == Field(inst \cap (20..31), 20, 12)
        t == Csr_load(c.csr, csr_addr)
        zimm == W(rs1)
        \* let t = load(csr_addr); store(csr_addr, v); regs[rd] = t; step()
        ReadWrite(v) == WriteRd([c EXCEPT !.csr = Csr_store(c.csr, csr_addr, v)], rd, t)
    IN CASE funct3 = 0 ->
                CASE rs2 = 2 /\ funct7 = 8 -> exec_sret(c)
                  [] rs2 = 2 /\ funct7 = 24 -> exec_mret(c)
                  [] funct7 = 9 -> step(c)
                  [] OTHER -> IllegalInstruction(c, inst)
         [] funct3 = 1 -> ReadWrite(c.regs[rs1])
         [] funct3 = 2 -> ReadWrite(c.regs[rs1])
         [] funct3 = 3 -> ReadWrite(t \ c.regs[rs1])
         [] funct3 = 5 -> ReadWrite(zimm)
         [] funct3 = 6 -> ReadWrite(t \cup zimm)
         [] funct3 = 7 -> ReadWrite(t \ zimm)
         [] OTHER -> IllegalInstruction(c, inst)

\* opcode 0x73
exec_system(c, inst, rd, rs1, rs2, funct3, funct7) ==
    LET csr_addr == Field(inst \cap (20..31), 20, 12)
        t == Csr_load(c.csr, csr_addr)
        zimm == W(rs1)
        \* let t = load(csr_addr); store(csr_addr, v); regs[rd] = t; step()
        ReadWrite(v) == WriteRd([c EXCEPT !.csr = Csr_store(c.csr, csr_addr, v)], rd, t)
    IN CASE funct3 = 0 ->
                CASE rs2 = 2 /\ funct7 = 8 -> exec_sret(c)
                  [] rs2 = 2 /\ funct7 = 24 -> exec_mret(c)
                  [] funct7 = 9 -> step(c)
                  [] OTHER -> IllegalInstruction(c, inst)
         [] funct3 = 1 -> ReadWrite(c.regs[rs1])
         [] funct3 = 2 -> ReadWrite(t \cup c.regs[rs1])
         [] funct3 = 3 -> ReadWrite(t \ c.regs[rs1])
         [] funct3 = 5 -> ReadWrite(zimm)
         [] funct3 = 6 -> ReadWrite(t \cup zimm)
         [] funct3 = 7 -> ReadWrite(t \ zimm)
         [] OTHER -> IllegalInstruction(c, inst)

\* Cpu::execute
execute(c0, inst) ==
    LET opcode == Field(inst, 0, 7)
        rd == Field(inst, 7, 5)
        rs1 == Field(inst, 15, 5)
        rs2 == Field(inst, 20, 5)
        funct3 == Field(inst, 12, 3)
        funct7 == Field(inst, 25, 7)
        c == [c0 EXCEPT !.regs[0] = Zero]
    IN CASE opcode = 3 -> exec_load(c, inst, rd, rs1, funct3)
         [] opcode = 19 -> exec_op_imm(c, inst, rd, rs1, funct3, funct7)
         [] opcode = 23 -> WriteRd(c, rd, wrapping_add(c.pc, Sext(inst \cap (12..31), 32)))
         [] opcode = 27 -> exec_op_imm_32(c, inst, rd, rs1, funct3, funct7)
         [] opcode = 35 -> exec_store(c, inst, rs1, rs2, funct3)
         [] opcode = 51 -> exec_op(c, inst, rd, rs1, rs2, funct3, funct7)
         [] opcode = 55 -> WriteRd(c, rd, Sext(inst \cap (12..31), 32))
         [] opcode = 59 -> exec_op_32(c, inst, rd, rs1, rs2, funct3, funct7)
         [] opcode = 99 -> exec_branch(c, inst, rs1, rs2, funct3)
         [] opcode = 103 -> exec_jalr(c, inst, rd, rs1)
         [] opcode = 111 -> exec_jal(c, inst, rd)
         [] opcode = 115 -> exec_system(c, inst, rd, rs1, rs2, funct3, funct7)
         [] OTHER -> IllegalInstruction(c, inst)

(***************************************************************************)
(* cpu.rs: Cpu::handle_exception.                                          *)
(***************************************************************************)
\* trap_in_s_mode without the test of the current mode.
trap_in_s_mode_any(c, e) == is_medelegated(c.csr, Exception_code(e))

\* trap_in_s_mode with the exceptions raised in S-mode kept in M-mode.
trap_in_s_mode_below(c, e) ==
    c.mode < Supervisor /\ is_medelegated(c.csr, Exception_code(e))

\* Whether the exception is taken in S-mode.
trap_in_s_mode(c, e) == c.mode <= Supervisor /\ is_medelegated(c.csr, Exception_code(e))

\* trap_status with xIE left as it was.
trap_status_keep_ie(status, mode, MASK_PIE, pie_i, MASK_IE, ie_i, MASK_PP, pp_i) ==
    LET ie == Shr(status \cap MASK_IE, ie_i)
        s1 == (status \ MASK_PIE) \cup Shl(ie, pie_i)
    IN (s1 \ MASK_PP) \cup Shl(W(mode), pp_i)

\* trap_status with xPIE cleared instead of set to xIE.
trap_status_no_pie(status, mode, MASK_PIE, pie_i, MASK_IE, ie_i, MASK_PP, pp_i) ==
    LET s1 == status \ MASK_PIE
        s2 == s1 \ MASK_IE
    IN (s2 \ MASK_PP) \cup Shl(W(mode), pp_i)

\* The status update, steps 6 to 8: xPIE = xIE, xIE = 0, xPP = the mode before.
trap_status(status, mode, MASK_PIE, pie_i, MASK_IE, ie_i, MASK_PP, pp_i) ==
    LET ie == Shr(status \cap MASK_IE, ie_i)
        s1 == (status \ MASK_PIE) \cup Shl(ie, pie_i)
        s2 == s1 \ MASK_IE
    IN (s2 \ MASK_PP) \cup Shl(W(mode), pp_i)

\* trap_pc with the mode bits of tvec kept.
trap_pc_unmasked(tvec) == tvec

\* Step 3: self.csr.load(TVEC) & !0b11
trap_pc(tvec) == tvec \ {0, 1}

\* Steps 2 to 8 against t, the CSRs, masks and bit places of the mode that
\* takes the trap.
trap_to(c, e, new_mode, t) ==
    LET csr1 == Csr_store(c.csr, t.EPC, c.pc)
        new_pc == trap_pc(Csr_load(csr1, t.TVEC))
        csr2 == Csr_store(csr1, t.CAUSE, W(Exception_code(e)))
        csr3 == Csr_store(csr2, t.TVAL, Exception_value(e))
        status == trap_status(Csr_load(csr3, t.STATUS), c.mode, t.MASK_PIE, t.pie_i,
                              t.MASK_IE, t.ie_i, t.MASK_PP, t.pp_i)
    IN [c EXCEPT !.mode = new_mode, !.pc = new_pc,
                 !.csr = Csr_store(csr3, t.STATUS, status)]

\* Cpu::handle_exception
handle_exception(c, e) ==
    IF trap_in_s_mode(c, e)
    THEN trap_to(c, e, Supervisor,
                 [STATUS |-> SSTATUS, TVEC |-> STVEC, CAUSE |-> SCAUSE, TVAL |-> STVAL,
                  EPC |-> SEPC, MASK_PIE |-> MASK_SPIE, pie_i |-> 5,
                  MASK_IE |-> MASK_SIE, ie_i |-> 1, MASK_PP |-> MASK_SPP, pp_i |-> 8])
    ELSE trap_to(c, e, Machine,
                 [STATUS |-> MSTATUS, TVEC |-> MTVEC, CAUSE |-> MCAUSE, TVAL |-> MTVAL,
                  EPC |-> MEPC, MASK_PIE |-> MASK_MPIE, pie_i |-> 7,
                  MASK_IE |-> MASK_MIE, ie_i |-> 3, MASK_PP |-> MASK_MPP, pp_i |-> 11])

(***************************************************************************)
(* The state.                                                              *)
(***************************************************************************)
VARIABLES
    regs,       \* Cpu.regs
    pc,         \* Cpu.pc
    mode,       \* Cpu.mode
    csr,        \* Cpu.csr: the CSR array, sparse
    dram,       \* Dram.dram: the bytes, sparse
    uart,       \* Uart.uart: the register array behind the mutex, sparse
    interrupt,  \* Uart.interrupt: the atomic flag
    rx_pc,      \* where the receive thread is
    byte,       \* the receive thread's one-byte buffer
    stdin,      \* the bytes the host has still to deliver
    eof,        \* whether stdin is closed once they are delivered
    loc,        \* where the run loop is
    inst,       \* the instruction fetched
    ret,        \* what execute returned
    steps,      \* iterations of the run loop begun
    op,         \* history: the operation that led to this state
    pre,        \* history: the hart before that operation
    trace,      \* history: the instructions executed: [pc, inst, mode, medeleg]
    unread,     \* history: RHR holds a received byte the guest has not read
    fresh,      \* history: a byte was deposited since is_interrupting() last said true
    polled,     \* history: what the last is_interrupting() returned
    sent,       \* history: the bytes the receive thread has read from stdin
    got,        \* history: the bytes the polling guest has loaded from RHR
    seen        \* history: the guest's last load of LSR had RX set, RHR not loaded since

hart_vars == <<regs, pc, mode, csr, dram>>
loop_vars == <<loc, inst, ret, steps, trace>>
rx_vars == <<interrupt, byte, stdin, eof, unread, fresh, polled, sent, got, seen>>
vars == <<regs, pc, mode, csr, dram, uart, interrupt, rx_pc, byte, stdin, eof,
          loc, inst, ret, steps, op, pre, trace, unread, fresh, polled, sent, got, seen>>

\* The hart as execute and handle_exception take it.
Hart == [regs |-> regs, pc |-> pc, mode |-> mode, csr |-> csr,
         bus |-> [dram |-> dram, uart |-> uart, rx_pc |-> rx_pc]]

SetHart(c) ==
    /\ regs' = c.regs
    /\ pc' = c.pc
    /\ mode' = c.mode
    /\ csr' = c.csr
    /\ dram' = c.bus.dram
    /\ uart' = c.bus.uart
    /\ rx_pc' = c.bus.rx_pc

NoRet == [tag |-> "none", new_pc |-> Zero, e |-> NoExc]

(***************************************************************************)
(* Instruction words, as an assembler lays them out.                       *)
(***************************************************************************)
\* opcode | rd << 7 | funct3 << 12 | rs1 << 15 | imm[11:0] << 20
IType(opcode, rd, funct3, rs1, imm12) ==
    W(opcode) \cup Shl(W(rd), 7) \cup Shl(W(funct3), 12) \cup Shl(W(rs1), 15)
    \cup Shl(W(imm12), 20)

\* opcode | imm[4:0] << 7 | funct3 << 12 | rs1 << 15 | rs2 << 20 | imm[11:5] << 25
SType(opcode, funct3, rs1, rs2, imm12) ==
    W(opcode) \cup Shl(W(imm12 % 32), 7) \cup Shl(W(funct3), 12) \cup Shl(W(rs1), 15)
    \cup Shl(W(rs2), 20) \cup Shl(W(imm12 \div 32), 25)

ADDI_X0_X0_5 == IType(19, 0, 0, 0, 5)           \* addi x0, x0, 5
ADDI_T0_X0_M1 == IType(19, 5, 0, 0, 4095)       \* addi t0, x0, -1
JAL_X0_8 == W(111) \cup Shl(W(4), 21)           \* jal x0, 8
CSRRW_X0_MSCRATCH_SP == IType(115, 0, 1, 2, MSCRATCH)   \* csrrw x0, mscratch, sp
ECALL == IType(115, 0, 0, 0, 0)                 \* ecall
EBREAK == IType(115, 0, 0, 0, 1)                \* ebreak
SRET == IType(115, 0, 0, 0, 258)                \* sret
MRET == IType(115, 0, 0, 0, 770)                \* mret
LB_T0_16_X0 == IType(3, 5, 0, 0, 16)            \* lb t0, 16(x0)
SB_X0_16_X0 == SType(35, 0, 0, 0, 16)           \* sb x0, 16(x0)
UNIMP == 0..31                                  \* 0xffff_ffff

\* The instructions a program image is made of.
InstSet == {ADDI_X0_X0_5, ADDI_T0_X0_M1, JAL_X0_8, CSRRW_X0_MSCRATCH_SP, ECALL, EBREAK,
            SRET, MRET, LB_T0_16_X0, SB_X0_16_X0, UNIMP}


\* Dram::new: the image copied to the start of a zeroed DRAM.
Dram_new(code) ==
    LET byte_at(x) == Field(code[(x \div 4) + 1], 8 * (x % 4), 8)
    IN [x \in {y \in 0..(4 * Len(code) - 1) : byte_at(y) # 0} |-> byte_at(x)]

(***************************************************************************)
(* The initial states.  The hart starts as Cpu::new leaves it, or as a     *)
(* boot prologue can leave it before it jumps to DRAM_BASE: execute checks *)
(* no privilege, so csrrw reaches every CSR value in every mode, and mret  *)
(* and sret reach every mode.                                              *)
(***************************************************************************)
\* mstatus values: none set; SIE MIE MPP=M MPRV; SPIE MPIE SPP MPP=S FS MPRV;
\* MIE SPIE MPP=0b10; SIE MPIE TVM SD.
MstatusSet == {{}, {1, 3, 11, 12, 17}, {5, 7, 8, 11, 13, 17}, {3, 5, 12}, {1, 7, 20, 63}}

\* medeleg values: nothing delegated; illegal instruction and the access
\* faults; the environment call from U-mode.
MedelegSet == {{}, {2, 5, 7}, {8}}

\* The trap vectors point at the second instruction of the image, with the
\* mode bits of tvec set; the exception pcs carry low bits too.
BootCsr(m, d) ==
    LET c1 == Csr_store(Empty, MSTATUS, m)
        c2 == Csr_store(c1, MEDELEG, d)
        c3 == Csr_store(c2, MTVEC, DRAM_BASE \cup {2, 0})
        c4 == Csr_store(c3, STVEC, DRAM_BASE \cup {2, 1})
        c5 == Csr_store(c4, MEPC, DRAM_BASE \cup {2, 1, 0})
    IN Csr_store(c5, SEPC, DRAM_BASE \cup {3, 1})

\* Cpu::new
InitHart ==
    /\ regs = [i \in 0..31 |-> IF i = 2 THEN DRAM_END ELSE Zero]
    /\ pc = DRAM_BASE
    /\ \/ mode = Machine /\ csr = Empty
       \/ /\ mode \in Modes
          /\ \E m \in MstatusSet, d \in MedelegSet : csr = BootCsr(m, d)

\* Uart::new, the receive thread about to read stdin
InitUart ==
    /\ uart = Put(Empty, UART_LSR, MASK_UART_LSR_TX, 0)
    /\ interrupt = FALSE
    /\ rx_pc = "read"
    /\ byte = 0
    /\ unread = FALSE
    /\ fresh = 0
    /\ polled = FALSE
    /\ sent = <<>>
    /\ got = <<>>
    /\ seen = FALSE

InitLoop ==
    /\ loc = "fetch"
    /\ inst = Zero
    /\ ret = NoRet
    /\ steps = 0
    /\ op = "new"
    /\ pre = Hart
    /\ trace = <<>>

\* The emulator started on a program image, stdin quiet.
Init ==
    /\ \E code \in [1..MaxSteps -> InstSet] : dram = Dram_new(code)
    /\ InitHart
    /\ InitUart
    /\ stdin = <<>>
    /\ eof = FALSE
    /\ InitLoop

(***************************************************************************)
(* main.rs: the run loop.                                                  *)
(***************************************************************************)
\* Cpu::fetch returned Ok(inst)
Fetch ==
    /\ loc = "fetch"
    /\ steps < MaxSteps
    /\ LET r == Bus_load(Hart.bus, pc, 32)
       IN /\ r.tag # "Err"
          /\ inst' = r.val
          /\ loc' = IF r.tag = "panic" THEN "panic" ELSE "execute"
    /\ steps' = steps + 1
    /\ op' = "fetch"
    /\ pre' = Hart
    /\ UNCHANGED <<hart_vars, uart, rx_pc, ret, trace, rx_vars>>

\* Cpu::fetch returned Err(e): handle_exception(e), and break if e.is_fatal()
FetchFault ==
    /\ loc = "fetch"
    /\ steps < MaxSteps
    /\ LET r == Bus_load(Hart.bus, pc, 32)
       IN /\ r.tag = "Err"
          /\ SetHart(handle_exception(Hart, r.e))
          /\ ret' = [tag |-> "Err", new_pc |-> Zero, e |-> r.e]
          /\ loc' = IF Exception_is_fatal(r.e) THEN "exit" ELSE "fetch"
    /\ steps' = steps + 1
    /\ op' = "handle_exception"
    /\ pre' = Hart
    /\ UNCHANGED <<inst, trace, rx_vars>>

\* cpu.execute(inst)
Execute ==
    /\ loc = "execute"
    /\ LET r == execute(Hart, inst)
       IN /\ SetHart(r.cpu)
          /\ ret' = [tag |-> r.tag, new_pc |-> r.new_pc, e |-> r.e]
          /\ loc' = IF r.tag = "panic" THEN "panic" ELSE "result"
    /\ op' = "execute"
    /\ pre' = Hart
    /\ trace' = Append(trace, [pc |-> pc, inst |-> inst, mode |-> mode,
                               medeleg |-> Csr_load(csr, MEDELEG)])
    /\ UNCHANGED <<inst, steps, rx_vars>>

\* SetPc followed by the next fetch at once: the poll for interrupts is left out.
SetPc_no_poll ==
    /\ loc = "result"
    /\ ret.tag = "Ok"
    /\ pc' = ret.new_pc
    /\ loc' = "fetch"
    /\ op' = "set_pc"
    /\ pre' = Hart
    /\ UNCHANGED <<regs, mode, csr, dram, uart, rx_pc, inst, ret, steps, trace, rx_vars>>

\* Ok(new_pc) => cpu.set_pc(new_pc)
SetPc ==
    /\ loc = "result"
    /\ ret.tag = "Ok"
    /\ pc' = ret.new_pc
    /\ loc' = "interrupt"
    /\ op' = "set_pc"
    /\ pre' = Hart
    /\ UNCHANGED <<regs, mode, csr, dram, uart, rx_pc, inst, ret, steps, trace, rx_vars>>

\* Trap without the break: the loop goes on whatever e.is_fatal() says.
Trap_no_break ==
    /\ loc = "result"
    /\ ret.tag = "Err"
    /\ SetHart(handle_exception(Hart, ret.e))
    /\ loc' = "interrupt"
    /\ op' = "handle_exception"
    /\ pre' = Hart
    /\ UNCHANGED <<inst, ret, steps, trace, rx_vars>>

\* Err(e) => cpu.handle_exception(e), and break if e.is_fatal()
Trap ==
    /\ loc = "result"
    /\ ret.tag = "Err"
    /\ SetHart(handle_exception(Hart, ret.e))
    /\ loc' = IF Exception_is_fatal(ret.e) THEN "exit" ELSE "interrupt"
    /\ op' = "handle_exception"
    /\ pre' = Hart
    /\ UNCHANGED <<inst, ret, steps, trace, rx_vars>>

\* cpu.check_pending_interrupt() with no interrupt both pending and enabled
CheckInterrupt ==
    /\ loc = "interrupt"
    /\ Csr_load(csr, MIE) \cap Csr_load(csr, MIP) = {}
    /\ loc' = "fetch"
    /\ op' = "check_pending_interrupt"
    /\ pre' = Hart
    /\ UNCHANGED <<hart_vars, uart, rx_pc, inst, ret, steps, trace, rx_vars>>

Next == Fetch \/ FetchFault \/ Execute \/ SetPc \/ Trap \/ CheckInterrupt

Spec == Init /\ [][Next]_vars

(***************************************************************************)
(* Properties of the hart.                                                 *)
(***************************************************************************)
Last(sq) == sq[Len(sq)]

Executed(i) == op = "execute" /\ Last(trace).inst = i

Delivered == op = "handle_exception"

\* The exception the last handle_exception delivered, its code, and whether
\* it was delegated: raised in U- or S-mode with its medeleg bit set.
DeliveredCode == Exception_code(ret.e)
Delegated == pre.mode \in {User, Supervisor} /\ DeliveredCode \in Csr_load(pre.csr, MEDELEG)

OldMstatus == Csr_load(pre.csr, MSTATUS)
NewMstatus == Csr_load(csr, MSTATUS)

\* C1: after execute returns, Ok or Err, register x0 holds 0, whatever the
\* instruction, those with rd = 0 included.
C1_X0IsZeroAfterExecute == op = "execute" => regs[0] = Zero

\* C2: from U-mode with medeleg bit 8 clear, ecall and then mret return control to
\* the instruction after the ecall, pc = address of the ecall + 4, in U-mode.
C2_EcallMretRoundTrip ==
    (/\ op = "set_pc"
     /\ Len(trace) >= 2
     /\ Last(trace).inst = MRET
     /\ trace[Len(trace) - 1].inst = ECALL
     /\ trace[Len(trace) - 1].mode = User
     /\ 8 \notin trace[Len(trace) - 1].medeleg)
    => /\ pc = wrapping_add(trace[Len(trace) - 1].pc, W(4))
       /\ mode = User

\* C3: an exception with code c delivered in U- or S-mode with medeleg bit c set is
\* taken in S-mode: mode becomes Supervisor, sepc, scause and stval are written,
\* and mepc, mcause and mtval keep their values.
C3_Delegation ==
    (Delivered /\ Delegated)
    => /\ mode = Supervisor
       /\ Csr_load(csr, SEPC) = pre.pc
       /\ Csr_load(csr, SCAUSE) = W(DeliveredCode)
       /\ Csr_load(csr, STVAL) = ret.e.val
       /\ Csr_load(csr, MEPC) = Csr_load(pre.csr, MEPC)
       /\ Csr_load(csr, MCAUSE) = Csr_load(pre.csr, MCAUSE)
       /\ Csr_load(csr, MTVAL) = Csr_load(pre.csr, MTVAL)

C3_Witness ==
    /\ Delivered /\ Delegated
    /\ pre.mode = Supervisor
    /\ mode = Supervisor
    /\ ret.e.variant = "IllegalInstruction"
    /\ Csr_load(csr, STVAL) = UNIMP
    /\ Csr_load(csr, SEPC) = DRAM_BASE \cup {2}
    /\ Csr_load(csr, MEPC) # Csr_load(csr, SEPC)

\* C4: a trap delivery sets, in the status of the mode that takes it, xPIE to the
\* old xIE, xIE to 0 and xPP to the mode before the trap (SPP one bit, MPP two),
\* leaves every other status bit, and makes the target mode the current one.
C4_TrapStatus ==
    Delivered
    => IF Delegated
       THEN /\ mode = Supervisor
            /\ (5 \in NewMstatus) = (1 \in OldMstatus)
            /\ 1 \notin NewMstatus
            /\ (8 \in NewMstatus) = (pre.mode = Supervisor)
            /\ NewMstatus \ {1, 5, 8} = OldMstatus \ {1, 5, 8}
       ELSE /\ mode = Machine
            /\ (7 \in NewMstatus) = (3 \in OldMstatus)
            /\ 3 \notin NewMstatus
            /\ Field(NewMstatus, 11, 2) = pre.mode
            /\ NewMstatus \ {3, 7, 11, 12} = OldMstatus \ {3, 7, 11, 12}

\* A trap to M-mode from S-mode with MIE set, MPIE clear and other bits set.
C4_Witness ==
    /\ Delivered /\ ~Delegated
    /\ pre.mode = Supervisor
    /\ OldMstatus = {1, 3, 11, 12, 17}
    /\ NewMstatus = {1, 7, 11, 17}

\* A delegated trap from U-mode with SIE set, SPIE clear.
C4_WitnessDelegated ==
    /\ Delivered /\ Delegated
    /\ pre.mode = User
    /\ OldMstatus = {1, 7, 20, 63}
    /\ NewMstatus = {5, 7, 20, 63}

\* C5: a delivered exception leaves the pc of the faulting instruction in the EPC
\* of the mode that takes it, the exception code in CAUSE and the trap value in
\* TVAL, and sets pc to TVEC & ~3, the base, also when TVEC selects vectored mode.
C5_TrapRegisters ==
    Delivered
    => LET S == Delegated
           EPC == IF S THEN SEPC ELSE MEPC
           CAUSE == IF S THEN SCAUSE ELSE MCAUSE
           TVAL == IF S THEN STVAL ELSE MTVAL
           TVEC == IF S THEN STVEC ELSE MTVEC
       IN /\ Csr_load(csr, EPC) = pre.pc
          /\ ret.tag = "Err"
          /\ (loc # "fetch" /\ trace # <<>> /\ steps = Len(trace)
                => Csr_load(csr, EPC) = Last(trace).pc)
          /\ Csr_load(csr, CAUSE) = W(DeliveredCode)
          /\ Csr_load(csr, TVAL) = ret.e.val
          /\ pc = Csr_load(pre.csr, TVEC) \ {0, 1}

\* An illegal instruction at DRAM_BASE + 4 taken in M-mode with mtvec selecting
\* vectored mode.
C5_Witness ==
    /\ Delivered /\ ~Delegated
    /\ 0 \in Csr_load(pre.csr, MTVEC)
    /\ ret.e = Exc("IllegalInstruction", UNIMP)
    /\ Csr_load(csr, MEPC) = DRAM_BASE \cup {2}
    /\ Csr_load(csr, MCAUSE) = {1}
    /\ Csr_load(csr, MTVAL) = UNIMP
    /\ pc = DRAM_BASE \cup {2}

\* C6: mret sets mode to the old MPP, MIE to the old MPIE, MPIE to 1, MPP to User
\* and pc to mepc & ~3, and clears MPRV if the old MPP was not Machine; with the
\* old MPP Machine, MPRV keeps its value.
C6_Mret ==
    (Executed(MRET) /\ ret.tag = "Ok")
    => /\ mode = Field(OldMstatus, 11, 2)
       /\ (3 \in NewMstatus) = (7 \in OldMstatus)
       /\ 7 \in NewMstatus
       /\ Field(NewMstatus, 11, 2) = User
       /\ ret.new_pc = Csr_load(pre.csr, MEPC) \ {0, 1}
       /\ (Field(OldMstatus, 11, 2) # Machine => 17 \notin NewMstatus)
       /\ (Field(OldMstatus, 11, 2) = Machine => (17 \in NewMstatus) = (17 \in OldMstatus))

\* C7: sret sets mode to the old SPP, SIE to the old SPIE, SPIE to 1, SPP to 0 and
\* pc to sepc & ~3, and changes no mstatus bit outside the sstatus view (none but
\* SIE, SPIE and SPP).
C7_Sret ==
    /\ Executed(SRET)
       => /\ ret.tag = "Ok"
          /\ mode = (IF 8 \in OldMstatus THEN Supervisor ELSE User)
          /\ (1 \in NewMstatus) = (5 \in OldMstatus)
          /\ 5 \in NewMstatus
          /\ 8 \notin NewMstatus
          /\ ret.new_pc = Csr_load(pre.csr, SEPC) \ {0, 1}
          /\ NewMstatus \ MASK_SSTATUS = OldMstatus \ MASK_SSTATUS
          /\ NewMstatus \ {1, 5, 8} = OldMstatus \ {1, 5, 8}
    /\ (op = "set_pc" /\ Last(trace).inst = SRET)
       => pc = Csr_load(csr, SEPC) \ {0, 1}

\* sret from M-mode with SPP and SPIE set and SIE clear: to S-mode at sepc & ~3.
C7_Witness ==
    /\ op = "set_pc" /\ Last(trace).inst = SRET
    /\ pre.mode = Supervisor
    /\ NewMstatus = {1, 5, 7, 11, 13, 17}
    /\ Last(trace).mode = Machine
    /\ pc = DRAM_BASE \cup {3}

(***************************************************************************)
(* uart.rs: the receive thread against the hart's thread.  The thread's    *)
(* places are the statements of its loop; it holds the mutex from "test"   *)
(* to "lsr" and gives it up in "wait".  A load or a store of the guest     *)
(* takes the mutex, acts and releases it, so it is one step that needs the *)
(* mutex free; is_interrupting takes no lock.  The hart only issues UART   *)
(* accesses here.                                                          *)
(***************************************************************************)
Bytes == {65, 66}

Inputs == UNION {[1..n -> Bytes] : n \in 0..MaxInput}

MutexFree == rx_pc \in {"read", "lock", "wait", "woken"}

Lsr == Get(uart, UART_LSR, 0)

InitRx ==
    /\ dram = Dram_new(<<>>)
    /\ regs = [i \in 0..31 |-> IF i = 2 THEN DRAM_END ELSE Zero]
    /\ pc = DRAM_BASE
    /\ mode = Machine
    /\ csr = Empty
    /\ InitUart
    /\ stdin \in Inputs
    /\ eof \in BOOLEAN
    /\ InitLoop

\* io::stdin().read(&mut byte) returned Ok(1)
RxRead ==
    /\ rx_pc = "read"
    /\ stdin # <<>>
    /\ byte' = Head(stdin)
    /\ stdin' = Tail(stdin)
    /\ sent' = Append(sent, Head(stdin))
    /\ rx_pc' = "lock"
    /\ op' = "rx_read"
    /\ UNCHANGED <<hart_vars, loop_vars, pre, uart, interrupt, eof, unread, fresh, polled, got, seen>>

\* io::stdin().read(&mut byte) returned Ok(0) at the end of the input: byte is
\* what it was
RxReadEof ==
    /\ rx_pc = "read"
    /\ stdin = <<>>
    /\ eof
    /\ rx_pc' = "lock"
    /\ op' = "rx_read"
    /\ UNCHANGED <<hart_vars, loop_vars, pre, uart, rx_vars>>

\* uart.lock()
RxLock ==
    /\ rx_pc = "lock"
    /\ rx_pc' = "test"
    /\ op' = "rx_lock"
    /\ UNCHANGED <<hart_vars, loop_vars, pre, uart, rx_vars>>

\* while (array[UART_LSR] & MASK_UART_LSR_RX) == 1 { cvar.wait }
RxTest ==
    /\ rx_pc = "test"
    /\ rx_pc' = IF ByteAnd(Lsr, MASK_UART_LSR_RX) = 1 THEN "wait" ELSE "rhr"
    /\ op' = "rx_test"
    /\ UNCHANGED <<hart_vars, loop_vars, pre, uart, rx_vars>>

\* cvar.wait returns with no notify: a spurious wakeup
RxSpurious ==
    /\ rx_pc = "wait"
    /\ rx_pc' = "woken"
    /\ op' = "rx_spurious"
    /\ UNCHANGED <<hart_vars, loop_vars, pre, uart, rx_vars>>

\* cvar.wait takes the mutex again and returns
RxWake ==
    /\ rx_pc = "woken"
    /\ rx_pc' = "test"
    /\ op' = "rx_wake"
    /\ UNCHANGED <<hart_vars, loop_vars, pre, uart, rx_vars>>

\* array[UART_RHR] = byte[0]
RxDeposit ==
    /\ rx_pc = "rhr"
    /\ uart' = Put(uart, UART_RHR, byte, 0)
    /\ unread' = TRUE
    /\ fresh' = IF fresh < MaxFresh THEN fresh + 1 ELSE fresh
    /\ rx_pc' = "flag"
    /\ op' = "rx_deposit"
    /\ UNCHANGED <<hart_vars, loop_vars, pre, interrupt, byte, stdin, eof, polled, sent, got, seen>>

\* read_interrupt.store(true, Ordering::Release)
RxRaise ==
    /\ rx_pc = "flag"
    /\ interrupt' = TRUE
    /\ rx_pc' = "lsr"
    /\ op' = "rx_raise"
    /\ UNCHANGED <<hart_vars, loop_vars, pre, uart, byte, stdin, eof, unread, fresh, polled,
                 sent, got, seen>>

\* array[UART_LSR] |= MASK_UART_LSR_RX, and the guard is dropped
RxSetLsr ==
    /\ rx_pc = "lsr"
    /\ uart' = Put(uart, UART_LSR, ByteOr(Lsr, MASK_UART_LSR_RX), 0)
    /\ rx_pc' = "read"
    /\ op' = "rx_set_lsr"
    /\ UNCHANGED <<hart_vars, loop_vars, pre, rx_vars>>

RxStep ==
    \/ RxRead \/ RxReadEof \/ RxLock \/ RxTest \/ RxWake
    \/ RxDeposit \/ RxRaise \/ RxSetLsr

\* A byte load of the guest from a UART register: bus.load(UART_BASE + index, 8)
GuestLoad ==
    /\ MutexFree
    /\ \E index \in {UART_RHR, UART_LSR} :
         LET r == Bus_load(Hart.bus, wrapping_add(UART_BASE, W(index)), 8)
         IN /\ r.tag = "Ok"
            /\ uart' = r.bus.uart
            /\ rx_pc' = r.bus.rx_pc
            /\ unread' = IF index = UART_RHR THEN FALSE ELSE unread
            /\ op' = IF index = UART_RHR THEN "load_rhr" ELSE "load_lsr"
    /\ UNCHANGED <<hart_vars, loop_vars, pre, interrupt, byte, stdin, eof, fresh, polled,
                 sent, got, seen>>

\* A byte store of the guest to a UART register:
\* bus.store(UART_BASE + index, 8, value)
GuestStore ==
    /\ MutexFree
    /\ \E index \in {UART_THR, 1, UART_LSR}, value \in {0, 1} :
         LET r == Bus_store(Hart.bus, wrapping_add(UART_BASE, W(index)), 8, W(value))
         IN /\ r.tag = "Ok"
            /\ uart' = r.bus.uart
            /\ rx_pc' = r.bus.rx_pc
            /\ op' = IF index = UART_LSR THEN "store_lsr" ELSE "store"
    /\ UNCHANGED <<hart_vars, loop_vars, pre, rx_vars>>

\* is_interrupting with a load in place of the swap: the flag stays up.
is_interrupting_load ==
    /\ polled' = interrupt
    /\ fresh' = IF interrupt THEN fresh - 1 ELSE fresh
    /\ op' = "is_interrupting"
    /\ UNCHANGED <<hart_vars, loop_vars, pre, uart, rx_pc, interrupt, byte, stdin, eof, unread,
                 sent, got, seen>>

\* Uart::is_interrupting: self.interrupt.swap(false, Ordering::Acquire)
is_interrupting ==
    /\ polled' = interrupt
    /\ interrupt' = FALSE
    /\ fresh' = IF interrupt THEN fresh - 1 ELSE fresh
    /\ op' = "is_interrupting"
    /\ UNCHANGED <<hart_vars, loop_vars, pre, uart, rx_pc, byte, stdin, eof, unread,
                 sent, got, seen>>

SpecRx == InitRx /\ [][RxStep \/ RxSpurious \/ GuestLoad \/ GuestStore \/ is_interrupting]_vars

\* The receive thread is scheduled: a statement it can take, it takes.  Nothing
\* makes a blocked cvar.wait return, and nothing makes the guest act.
SpecRxFair == SpecRx /\ WF_vars(RxStep)

(***************************************************************************)
(* Properties of the UART.  `unread` says RHR holds a deposited byte the   *)
(* guest has not loaded; `fresh` counts the deposits no true answer of     *)
(* is_interrupting has been given for.                                     *)
(***************************************************************************)
\* C8: the receive thread never writes RHR while the byte it deposited before is
\* unread, whatever loads and stores the guest interleaves.
C8_NoOverwrite == [][(rx_pc = "rhr" /\ rx_pc' = "flag") => ~unread]_vars

\* C9: a guest load of RHR leaves LSR.RX clear, and when it woke the receive
\* thread out of its wait, the thread eventually deposits its byte in RHR.
C9_ReadWakesThread ==
    /\ [](op = "load_rhr" => ByteAnd(Lsr, MASK_UART_LSR_RX) = 0)
    /\ (op = "load_rhr" /\ rx_pc = "woken") ~> (rx_pc = "flag")

FromFetch == Delivered /\ steps = Len(trace) + 1
FromExecute == Delivered /\ steps = Len(trace)

Unmapped(addr) ==
    /\ ~InRange(addr, CLINT_BASE, CLINT_END)
    /\ ~InRange(addr, PLIC_BASE, PLIC_END)
    /\ ~InRange(addr, DRAM_BASE, DRAM_END)
    /\ ~InRange(addr, UART_BASE, UART_END)
    /\ ~InRange(addr, VIRTIO_BASE, VIRTIO_END)

C12_ExecuteFaultsContinue ==
    (FromExecute /\ ret.e.variant \in {"StoreAMOAccessFault", "LoadAccessFault",
                                       "IllegalInstruction"})
    => /\ loc = "interrupt"
       /\ pc = Csr_load(pre.csr, IF Delegated THEN STVEC ELSE MTVEC) \ {0, 1}

(***************************************************************************)
(* Interrupts: Cpu::check_pending_interrupt and Cpu::handle_interrupt, as  *)
(* sections 4.3 and 4.4 of the design give them, called by the run loop.   *)
(***************************************************************************)
\* Interrupt::code without the interrupt bit, in the order of priority:
\* MEI, MSI, MTI, SEI, SSI, STI.
Priority == <<11, 3, 7, 9, 1, 5>>

MTIP == 7
SEIP == 9

\* Interrupt_code without the interrupt bit.
Interrupt_code_no_msb(i) == W(i)

\* Interrupt::code: i | MASK_INTERRUPT_BIT, the top bit of the word
Interrupt_code(i) == W(i) \cup {63}

\* The devices polled: the UART's flag and the timer's comparison are latched
\* into mip.
poll_devices(c, uart_flag, timer) ==
    LET mip == Csr_load(c.csr, MIP)
        mip1 == IF uart_flag THEN mip \cup {SEIP} ELSE mip
        mip2 == IF timer THEN mip1 \cup {MTIP} ELSE mip1
    IN [c EXCEPT !.csr = Csr_store(c.csr, MIP, mip2)]

\* Whether interrupt i passes the gate of the current mode.
takeable(c, i) ==
    LET mstatus == Csr_load(c.csr, MSTATUS)
    IN \/ c.mode < Machine
       \/ c.mode = Machine /\ 3 \in mstatus
       \/ /\ i \in Csr_load(c.csr, MIDELEG)
          /\ (c.mode < Supervisor \/ (c.mode = Supervisor /\ 1 \in mstatus))

\* The interrupt to deliver after the poll: the first in the order of priority
\* that is pending, enabled and takeable; 0 for None.
RECURSIVE pick(_, _)
pick(c, k) ==
    IF k > Len(Priority) THEN 0
    ELSE LET i == Priority[k]
         IN IF i \in (Csr_load(c.csr, MIE) \cap Csr_load(c.csr, MIP)) /\ takeable(c, i)
            THEN i
            ELSE pick(c, k + 1)

\* Cpu::handle_interrupt: the trap with cause i | MASK_INTERRUPT_BIT and tval 0,
\* to S-mode if delegated by mideleg; a vectored tvec adds 4 * i to the base.
handle_interrupt(c, i) ==
    LET s_mode == c.mode <= Supervisor /\ i \in Csr_load(c.csr, MIDELEG)
        EPC == IF s_mode THEN SEPC ELSE MEPC
        CAUSE == IF s_mode THEN SCAUSE ELSE MCAUSE
        TVAL == IF s_mode THEN STVAL ELSE MTVAL
        STATUS == IF s_mode THEN SSTATUS ELSE MSTATUS
        tvec == Csr_load(c.csr, IF s_mode THEN STVEC ELSE MTVEC)
        mip == IF i = SEIP THEN Csr_load(c.csr, MIP) ELSE Csr_load(c.csr, MIP) \ {i}
        csr0 == Csr_store(c.csr, MIP, mip)
        csr1 == Csr_store(csr0, EPC, c.pc)
        csr2 == Csr_store(csr1, CAUSE, Interrupt_code(i))
        csr3 == Csr_store(csr2, TVAL, Zero)
        status == IF s_mode
                  THEN trap_status(Csr_load(csr3, STATUS), c.mode, MASK_SPIE, 5,
                                   MASK_SIE, 1, MASK_SPP, 8)
                  ELSE trap_status(Csr_load(csr3, STATUS), c.mode, MASK_MPIE, 7,
                                   MASK_MIE, 3, MASK_MPP, 11)
        new_pc == IF Field(tvec, 0, 2) = 1
                  THEN wrapping_add(trap_pc(tvec), W(4 * i))
                  ELSE trap_pc(tvec)
    IN [c EXCEPT !.mode = IF s_mode THEN Supervisor ELSE Machine,
                 !.pc = new_pc,
                 !.csr = Csr_store(csr3, STATUS, status)]

\* The poll of the run loop: is_interrupting() answers and clears the flag.
PollFlag ==
    /\ polled' = interrupt
    /\ interrupt' = FALSE
    /\ fresh' = IF interrupt THEN fresh - 1 ELSE fresh
    /\ UNCHANGED <<byte, stdin, eof, unread, sent, got, seen>>

\* cpu.check_pending_interrupt() returned None
InterruptNone ==
    /\ loc = "interrupt"
    /\ \E timer \in BOOLEAN :
         LET c == poll_devices(Hart, interrupt, timer)
         IN /\ pick(c, 1) = 0
            /\ SetHart(c)
    /\ PollFlag
    /\ loc' = "fetch"
    /\ op' = "check_pending_interrupt"
    /\ pre' = Hart
    /\ UNCHANGED <<inst, ret, steps, trace>>

\* cpu.check_pending_interrupt() returned Some(interrupt):
\* cpu.handle_interrupt(interrupt)
InterruptTaken ==
    /\ loc = "interrupt"
    /\ \E timer \in BOOLEAN :
         LET c == poll_devices(Hart, interrupt, timer)
         IN /\ pick(c, 1) # 0
            /\ SetHart(handle_interrupt(c, pick(c, 1)))
    /\ PollFlag
    /\ loc' = "fetch"
    /\ op' = "handle_interrupt"
    /\ pre' = Hart
    /\ UNCHANGED <<inst, ret, steps, trace>>

\* The UART with a byte deposited and its flag up, the thread waiting with the
\* next byte for the guest to read the first.
InitUartRaised ==
    /\ uart = Put(Put(Empty, UART_RHR, 65, 0), UART_LSR, 3, 0)
    /\ interrupt = TRUE
    /\ rx_pc = "wait"
    /\ byte = 66
    /\ unread = TRUE
    /\ fresh = 1
    /\ polled = FALSE
    /\ sent = <<>>
    /\ got = <<>>
    /\ seen = FALSE

\* Programs that go straight on, trap, or end, under the CSRs a boot prologue
\* may leave; with tvec = 0 the vectors are unset.
InitIrq ==
    /\ \E code \in [1..MaxSteps -> {ADDI_T0_X0_M1, UNIMP, SB_X0_16_X0}] :
         dram = Dram_new(code)
    /\ regs = [i \in 0..31 |-> IF i = 2 THEN DRAM_END ELSE Zero]
    /\ pc = DRAM_BASE
    /\ mode \in Modes
    /\ \E m \in {{}, {1, 3}}, ie \in {{}, {7, 9, 11}, {1, 3, 5, 7, 9}},
          ip \in {{}, {7}, {9, 11}, {1, 3, 5}, {1, 5}},
          d \in {{}, {9}}, tvec \in {Zero, DRAM_BASE \cup {2, 0}} :
         LET c1 == Csr_store(Empty, MSTATUS, m)
             c2 == Csr_store(c1, MIE, ie)
             c3 == Csr_store(c2, MIP, ip)
             c4 == Csr_store(c3, MIDELEG, d)
             c5 == Csr_store(c4, MTVEC, tvec)
         IN csr = Csr_store(c5, STVEC, tvec)
    /\ InitUart \/ InitUartRaised
    /\ stdin = <<>>
    /\ eof = FALSE
    /\ InitLoop

SpecIrq ==
    InitIrq /\ [][Fetch \/ FetchFault \/ Execute \/ SetPc \/ Trap
                  \/ InterruptNone \/ InterruptTaken]_vars

\* C13: interrupts are observed at instruction boundaries only: the poll, with the
\* delivery of an interrupt it finds, comes once in an iteration of the loop, after
\* execute's new pc is set or its exception delivered, and every fetch but the
\* first follows a poll; nothing comes between a fetch and its execute.
C13_InterruptsAtBoundaries ==
    [][/\ (op' \in {"check_pending_interrupt", "handle_interrupt"})
            => /\ loc = "interrupt"
               /\ op \in {"set_pc", "handle_exception"}
               /\ steps = Len(trace)
               /\ loc' = "fetch"
       /\ (op' = "fetch") => op \in {"new", "check_pending_interrupt", "handle_interrupt"}
       /\ (op = "fetch" /\ loc = "execute") => op' = "execute"
       /\ (op' = "execute") => op = "fetch"]_vars

\* The machine timer interrupt taken after the first instruction has set its pc:
\* mepc is the pc of the second.
C13_Witness ==
    /\ op = "handle_interrupt"
    /\ Len(trace) = 1
    /\ mode = Machine
    /\ Csr_load(csr, MCAUSE) = Interrupt_code(MTIP)
    /\ Csr_load(csr, MEPC) = DRAM_BASE \cup {2}
    /\ pc = DRAM_BASE \cup {5}

(***************************************************************************)
(* Bus::load and Bus::store called on the devices, the receive thread of   *)
(* the UART at rest.  `ret` is the last call with what it returned, `pre`  *)
(* the hart before it, and `trace` holds the last store that DRAM took.    *)
(***************************************************************************)
MaxCalls == 2

InitBus ==
    /\ dram = Dram_new(<<ADDI_T0_X0_M1>>)
    /\ regs = [i \in 0..31 |-> IF i = 2 THEN DRAM_END ELSE Zero]
    /\ pc = DRAM_BASE
    /\ mode = Machine
    /\ csr = Empty
    /\ InitUart \/ InitUartRaised
    /\ stdin = <<>>
    /\ eof = FALSE
    /\ InitLoop

\* bus.load(addr, size)
BusLoad ==
    /\ loc = "fetch"
    /\ steps < MaxCalls
    /\ \E addr \in {DRAM_BASE \cup W(i) : i \in 0..8}
                   \cup {Zero, DRAM_END, wrapping_add(DRAM_END, W(1)), UART_BASE,
                         UART_BASE \cup W(UART_LSR), CLINT_BASE},
          size \in {8, 16, 32, 64} :
         LET r == Bus_load(Hart.bus, addr, size)
         IN /\ dram' = r.bus.dram
            /\ uart' = r.bus.uart
            /\ rx_pc' = r.bus.rx_pc
            /\ ret' = [addr |-> addr, size |-> size, value |-> Zero,
                       tag |-> r.tag, val |-> r.val, e |-> r.e]
            /\ loc' = IF r.tag = "panic" THEN "panic" ELSE "fetch"
    /\ steps' = steps + 1
    /\ op' = "load"
    /\ pre' = Hart
    /\ UNCHANGED <<regs, pc, mode, csr, inst, trace, rx_vars>>

\* bus.store(addr, size, value), of 0x1122_3344_5566_7788 or of -1
BusStore ==
    /\ loc = "fetch"
    /\ steps < MaxCalls
    /\ \E addr \in {DRAM_BASE \cup W(1), DRAM_END, Zero, UART_BASE,
                   UART_BASE \cup W(UART_LSR)},
          size \in {8, 16, 32, 64},
          value \in {Shl(W(287454020), 32) \cup W(1432778632), 0..63} :
         LET r == Bus_store(Hart.bus, addr, size, value)
             call == [addr |-> addr, size |-> size, value |-> value,
                      tag |-> r.tag, val |-> r.val, e |-> r.e]
         IN /\ dram' = r.bus.dram
            /\ uart' = r.bus.uart
            /\ rx_pc' = r.bus.rx_pc
            /\ ret' = call
            /\ trace' = IF InRange(addr, DRAM_BASE, DRAM_END) /\ r.tag = "Ok"
                        THEN <<call>>
                        ELSE trace
            /\ loc' = IF r.tag = "panic" THEN "panic" ELSE "fetch"
    /\ steps' = steps + 1
    /\ op' = "store"
    /\ pre' = Hart
    /\ UNCHANGED <<regs, pc, mode, csr, inst, rx_vars>>

SpecBus == InitBus /\ [][BusLoad \/ BusStore]_vars

BusUnchanged == dram = pre.bus.dram /\ uart = pre.bus.uart /\ rx_pc = pre.bus.rx_pc

\* C18: a load from an address in no mapped range returns LoadAccessFault(addr),
\* a store to one returns StoreAMOAccessFault(addr), and memory and devices are
\* as they were.
C18_UnmappedFaults ==
    /\ (op = "load" /\ Unmapped(ret.addr))
        => (ret.tag = "Err" /\ ret.e = Exc("LoadAccessFault", ret.addr) /\ BusUnchanged)
    /\ (op = "store" /\ Unmapped(ret.addr))
        => (ret.tag = "Err" /\ ret.e = Exc("StoreAMOAccessFault", ret.addr) /\ BusUnchanged)

\* A 64-bit load one byte past the end of DRAM, after a store that DRAM took.
C18_Witness ==
    /\ op = "load"
    /\ ret.addr = wrapping_add(DRAM_END, W(1))
    /\ ret.size = 64
    /\ ret.e = Exc("LoadAccessFault", ret.addr)
    /\ trace # <<>>

\* C19: a UART access of a size other than 8 fails, a load with
\* LoadAccessFault and a store with StoreAMOAccessFault, and leaves the UART as
\* it was: the RX bit of LSR is not cleared and the receive thread not woken.
C19_UartSize ==
    /\ (op = "load" /\ InRange(ret.addr, UART_BASE, UART_END) /\ ret.size # 8)
        => (ret.tag = "Err" /\ ret.e = Exc("LoadAccessFault", ret.addr) /\ BusUnchanged)
    /\ (op = "store" /\ InRange(ret.addr, UART_BASE, UART_END) /\ ret.size # 8)
        => (ret.tag = "Err" /\ ret.e = Exc("StoreAMOAccessFault", ret.addr) /\ BusUnchanged)

\* load(UART_BASE, 16) with a byte unread and the thread waiting for the read.
C19_Witness ==
    /\ op = "load"
    /\ ret.addr = UART_BASE
    /\ ret.size = 16
    /\ ret.tag = "Err"
    /\ rx_pc = "wait"
    /\ ByteAnd(Get(uart, UART_LSR, 0), MASK_UART_LSR_RX) # 0

\* The last store DRAM took, and whether the load just made is i bytes above it.
Stored == trace[1]
LoadAt(i) == op = "load" /\ trace # <<>> /\ ret.addr = wrapping_add(Stored.addr, W(i))

\* C20: DRAM is little-endian: after a 64-bit store of v at A, the 8-bit load at
\* A + i returns byte i of v, the least significant first; and a load at A of
\* the size of the store returns v truncated to that size.
C20_LittleEndian ==
    /\ \A i \in 0..7 :
         (LoadAt(i) /\ Stored.size = 64 /\ ret.size = 8)
         => (ret.tag = "Ok" /\ ret.val = W(Field(Stored.value, 8 * i, 8)))
    /\ (LoadAt(0) /\ ret.size = Stored.size)
         => (ret.tag = "Ok" /\ ret.val = Zext(Stored.value, Stored.size))

\* The byte 0x22 of 0x1122_3344_5566_7788 read back from A + 6, A = DRAM_BASE + 1.
C20_Witness ==
    /\ LoadAt(6)
    /\ Stored.addr = DRAM_BASE \cup W(1)
    /\ Stored.size = 64
    /\ Field(Stored.value, 0, 8) = 136
    /\ Field(Stored.value, 56, 8) = 17
    /\ ret.size = 8
    /\ ret.val = W(34)

(***************************************************************************)
(* Cpu::execute on one instruction word, as the run loop calls it on what  *)
(* fetch returned.                                                         *)
(***************************************************************************)
\* The words executed: every opcode execute decodes and three it does not, with
\* every funct3 and funct7 = 0 or 0x20, on rd = t0, rs1 = sp, rs2 = x0; the CSR
\* instructions on five CSRs with rs1 (or zimm) 0, 2 and 4; and the words of
\* InstSet.
DecodeSet ==
    {IType(o, 5, f3, 2, 32 * f7) :
        o \in {3, 19, 23, 27, 35, 51, 55, 59, 99, 103, 111, 115, 0, 15, 127},
        f3 \in 0..7, f7 \in {0, 32}}
    \cup {IType(115, rd, f3, rs1, a) :
            rd \in {0, 5}, f3 \in {1, 2, 3, 5, 6, 7}, rs1 \in {0, 2, 4},
            a \in {SSTATUS, MSTATUS, SIE, MEPC, MHARTID}}
    \cup InstSet

\* The hart about to execute the word fetched from DRAM_BASE, with tp = -1 and
\* mideleg delegating the supervisor interrupts.
InitExec ==
    /\ \E w \in DecodeSet : inst = w /\ dram = Dram_new(<<w>>)
    /\ regs = [i \in 0..31 |-> CASE i = 2 -> DRAM_END [] i = 4 -> 0..63 [] OTHER -> Zero]
    /\ pc = DRAM_BASE
    /\ mode \in Modes
    /\ \E m \in MstatusSet \cup {{0}}, ie \in {{}, {1, 7, 9}} :
         csr = Csr_store(Csr_store(BootCsr(m, {}), MIDELEG, {1, 5, 9}), MIE, ie)
    /\ InitUart
    /\ stdin = <<>>
    /\ eof = FALSE
    /\ loc = "execute"
    /\ ret = NoRet
    /\ steps = 1
    /\ op = "fetch"
    /\ pre = Hart
    /\ trace = <<>>

SpecExec == InitExec /\ [][Execute]_vars

\* The fields of the word executed.
InstOpcode == Field(inst, 0, 7)
InstRd == Field(inst, 7, 5)
InstFunct3 == Field(inst, 12, 3)
InstRs1 == Field(inst, 15, 5)
InstCsr == Field(inst, 20, 12)

\* C14: after csrrw or csrrwi has stored v to sstatus, sstatus reads v & SSTATUS_MASK
\* and the bits of mstatus outside the mask are as they were; with mstatus = 1,
\* csrrwi x0, sstatus, 4 leaves sstatus reading 0 and mstatus reading 1.
C14_SstatusShadow ==
    (op = "execute" /\ InstOpcode = 115 /\ InstFunct3 \in {1, 5} /\ InstCsr = SSTATUS)
    => LET v == CASE InstFunct3 = 5 -> W(InstRs1)
                  [] InstRs1 = 0 -> Zero
                  [] OTHER -> pre.regs[InstRs1]
       IN /\ ret.tag = "Ok"
          /\ Csr_load(csr, SSTATUS) = v \cap MASK_SSTATUS
          /\ Csr_load(csr, MSTATUS) \ MASK_SSTATUS = Csr_load(pre.csr, MSTATUS) \ MASK_SSTATUS
          /\ (Csr_load(pre.csr, MSTATUS) = {0} /\ inst = IType(115, 0, 5, 4, SSTATUS))
                => (Csr_load(csr, SSTATUS) = Zero /\ Csr_load(csr, MSTATUS) = {0})

\* csrrw t0, sstatus, tp stored -1 over an mstatus that had MIE, SPIE and MPP
\* set: sstatus reads the mask, and MIE and MPP stay.
C14_Witness ==
    /\ op = "execute"
    /\ inst = IType(115, 5, 1, 4, SSTATUS)
    /\ Csr_load(pre.csr, MSTATUS) = {3, 5, 12}
    /\ Csr_load(csr, SSTATUS) = MASK_SSTATUS
    /\ Csr_load(csr, MSTATUS) = MASK_SSTATUS \cup {3, 12}
    /\ regs[5] = {5}

C17_ExecuteNeverAborts ==
    op = "execute"
    => /\ ret.tag \in {"Ok", "Err"}
       /\ (\/ InstOpcode \notin {3, 19, 23, 27, 35, 51, 55, 59, 99, 103, 111, 115}
           \/ InstOpcode = 3 /\ InstFunct3 = 7
           \/ InstOpcode = 35 /\ InstFunct3 >= 4)
          => (ret.tag = "Err" /\ ret.e = Exc("IllegalInstruction", inst))

\* C16: ecall raises the environment call exception of the mode it is executed
\* in, and ebreak raises Breakpoint.
C16_EcallEbreak ==
    /\ (op = "execute" /\ inst = ECALL)
        => /\ ret.tag = "Err"
           /\ ret.e.variant = CASE pre.mode = User -> "EnvironmentCallFromUMode"
                                [] pre.mode = Supervisor -> "EnvironmentCallFromSMode"
                                [] OTHER -> "EnvironmentCallFromMMode"
    /\ (op = "execute" /\ inst = EBREAK)
        => (ret.tag = "Err" /\ ret.e.variant = "Breakpoint")

(***************************************************************************)
(* Cpu::execute on the jumps, branches, shifts, word operations and loads, *)
(* over register values at the boundaries of the 32- and 64-bit ranges,    *)
(* followed by set_pc.                                                     *)
(***************************************************************************)
\* The words executed, on rs1 = t1 (x6) and rs2 = t2 (x7): jalr and jal with
\* offsets of both signs, the eight funct3 of BRANCH, OP-32 and OP-IMM-32 with
\* immediate bit 5 clear and set, the shifts of OP and OP-IMM, and the loads.
AluSet ==
    LET RType(o, rd, f3, f7) == IType(o, rd, f3, 6, 7 + 32 * f7)
        BType(f3, imm) ==
            W(99) \cup Shl(W(f3), 12) \cup Shl(W(6), 15) \cup Shl(W(7), 20)
            \cup Shl(W((imm \div 4096) % 2), 31) \cup Shl(W((imm \div 32) % 64), 25)
            \cup Shl(W((imm \div 2) % 16), 8) \cup Shl(W((imm \div 2048) % 2), 7)
        JType(rd, imm) ==
            W(111) \cup Shl(W(rd), 7)
            \cup Shl(W((imm \div 1048576) % 2), 31) \cup Shl(W((imm \div 2) % 1024), 21)
            \cup Shl(W((imm \div 2048) % 2), 20) \cup Shl(W((imm \div 4096) % 256), 12)
    IN {IType(103, rd, 0, 6, imm) : rd \in {0, 5, 6}, imm \in {0, 1, 7, 4095}}
       \cup {JType(rd, imm) : rd \in {0, 10}, imm \in {42, 2048, 4096, 1048574, 1048576, 2097148}}
       \cup {BType(f3, imm) : f3 \in 0..7, imm \in {42, 4094, 4096, 8188}}
       \cup {RType(59, 5, f3, f7) : f3 \in {0, 1, 5}, f7 \in {0, 32}}
       \cup {IType(27, 5, f3, 6, imm) : f3 \in {0, 1, 5}, imm \in {0, 1, 31, 33, 1025, 1087, 4095}}
       \cup {RType(51, 5, f3, f7) : f3 \in {1, 5}, f7 \in {0, 32}}
       \cup {IType(19, 5, f3, 6, imm) : f3 \in {1, 5}, imm \in {0, 2, 32, 63, 66, 1026, 1087, 2050}}
       \cup {IType(3, 5, f3, 6, imm) : f3 \in 0..7, imm \in {0, 4, 5, 4092}}

\* The hart about to execute a word of AluSet fetched from DRAM_BASE, followed in
\* DRAM by 0xffff_ffff and 0x0050_0013; x0 is as Cpu::new or as addi x0, x0, 5
\* left it, and t1 and t2 hold 0, 1, -1, -8, 64, 33, 0x8000_0000, 0x8000_0008,
\* 1 << 63 or 0x1_0000_0002.
InitAlu ==
    /\ \E w \in AluSet : inst = w /\ dram = Dram_new(<<w, UNIMP, ADDI_X0_X0_5>>)
    /\ \E x0 \in {Zero, W(5)},
          a, b \in {Zero, {0}, 0..63, 3..63, {6}, {0, 5}, {31}, {3, 31}, {63}, {1, 32}} :
         regs = [i \in 0..31 |-> CASE i = 0 -> x0 [] i = 2 -> DRAM_END
                                   [] i = 6 -> a [] i = 7 -> b [] OTHER -> Zero]
    /\ pc = DRAM_BASE
    /\ mode = Machine
    /\ csr = Empty
    /\ InitUart
    /\ stdin = <<>>
    /\ eof = FALSE
    /\ loc = "execute"
    /\ ret = NoRet
    /\ steps = 1
    /\ op = "fetch"
    /\ pre = Hart
    /\ trace = <<>>

SpecAlu == InitAlu /\ [][Execute \/ SetPc]_vars

\* More fields of the word executed, its immediates as the ISA lays them out,
\* and the value a register had when execute read it.
InstRs2 == Field(inst, 20, 5)
InstFunct7 == Field(inst, 25, 7)
ImmI == Sext(Shr(inst, 20), 12)
ImmB ==
    Sext(Shl(W(Field(inst, 31, 1)), 12) \cup Shl(W(Field(inst, 7, 1)), 11)
         \cup Shl(W(Field(inst, 25, 6)), 5) \cup Shl(W(Field(inst, 8, 4)), 1), 13)
ImmJ ==
    Sext(Shl(W(Field(inst, 31, 1)), 20) \cup Shl(W(Field(inst, 12, 8)), 12)
         \cup Shl(W(Field(inst, 20, 1)), 11) \cup Shl(W(Field(inst, 21, 10)), 1), 21)
Read(r) == IF r = 0 THEN Zero ELSE pre.regs[r]
Rs1 == Read(InstRs1)
Rs2 == Read(InstRs2)

\* C21: jalr writes pc + 4 to rd and returns (rs1 + imm) & ~1 from the value rs1
\* had before the instruction, also when rd = rs1; bit 0 of new_pc is 0.
C21_Jalr ==
    (op = "execute" /\ InstOpcode = 103)
    => /\ ret.tag = "Ok"
       /\ regs[InstRd] = wrapping_add(pre.pc, W(4))
       /\ ret.new_pc = wrapping_add(Rs1, ImmI) \ {0}
       /\ 0 \notin ret.new_pc

\* jalr t1, -1(t1) with t1 = 0x8000_0008: t1 = pc + 4 and new_pc = 0x8000_0006.
C21_Witness ==
    /\ op = "execute"
    /\ inst = IType(103, 6, 0, 6, 4095)
    /\ pre.regs[6] = {3, 31}
    /\ regs[6] = DRAM_BASE \cup {2}
    /\ ret.new_pc = {1, 2, 31}

\* C22: beq, bne, blt, bge, bltu and bgeu return pc + the B-type immediate when
\* their condition holds and pc + 4 when it does not, blt and bge comparing as
\* signed and bltu and bgeu as unsigned 64-bit values, and no register is
\* modified.
C22_Branch ==
    (op = "execute" /\ InstOpcode = 99 /\ InstFunct3 \in {0, 1, 4, 5, 6, 7})
    => LET cond == CASE InstFunct3 = 0 -> Rs1 = Rs2
                     [] InstFunct3 = 1 -> Rs1 # Rs2
                     [] InstFunct3 = 4 -> SLt(Rs1, Rs2)
                     [] InstFunct3 = 5 -> ~SLt(Rs1, Rs2)
                     [] InstFunct3 = 6 -> ULt(Rs1, Rs2)
                     [] OTHER -> ~ULt(Rs1, Rs2)
       IN /\ ret.tag = "Ok"
          /\ ret.new_pc = wrapping_add(pre.pc, IF cond THEN ImmB ELSE W(4))
          /\ regs = pre.regs

\* C23: addw, subw, sllw, srlw, sraw and addiw, slliw, srliw, sraiw leave in rd
\* the 32-bit result of the operation on the low 32 bits of the operands,
\* sign-extended from bit 31.
C23_WordOps ==
    LET a == Zext(Rs1, 32)
        reg == InstOpcode = 59
        b == IF reg THEN Zext(Rs2, 32) ELSE Zext(ImmI, 32)
        sh == IF reg THEN Field(Rs2, 0, 5) ELSE Field(inst, 20, 5)
        Is(f3, f7) == InstFunct3 = f3 /\ InstFunct7 = f7
        Result(r) == ret.tag = "Ok" /\ regs[InstRd] = Sext(r, 32)
    IN (op = "execute" /\ InstOpcode \in {27, 59})
       => /\ (InstFunct3 = 0 /\ (InstFunct7 = 0 \/ ~reg)) => Result(wrapping_add(a, b))
          /\ (reg /\ Is(0, 32)) => Result(wrapping_sub(a, b))
          /\ Is(1, 0) => Result(Shl(a, sh))
          /\ Is(5, 0) => Result(Shr(a, sh))
          /\ Is(5, 32) => Result(Sar(Sext(a, 32), sh))

\* addw t0, t1, t2 with t1 = 0x8000_0000 and t2 = 1: t0 = 0xffff_ffff_8000_0001.
C23_Witness ==
    /\ op = "execute"
    /\ inst = IType(59, 5, 0, 6, 7)
    /\ pre.regs[6] = {31}
    /\ pre.regs[7] = {0}
    /\ regs[5] = {0} \cup (31..63)

\* C24: sll, srl and sra shift by rs2[5:0] alone, so that a shift by 64 is a
\* shift by 0, and sllw, srlw and sraw shift by rs2[4:0] alone.
C24_ShiftAmount ==
    LET sh6 == Field(Rs2, 0, 6)
        sh5 == Field(Rs2, 0, 5)
        a32 == Zext(Rs1, 32)
        Is(o, f3, f7) == InstOpcode = o /\ InstFunct3 = f3 /\ InstFunct7 = f7
        Result(r) == ret.tag = "Ok" /\ regs[InstRd] = r
    IN op = "execute"
       => /\ Is(51, 1, 0) => Result(Shl(Rs1, sh6))
          /\ Is(51, 5, 0) => Result(Shr(Rs1, sh6))
          /\ Is(51, 5, 32) => Result(Sar(Rs1, sh6))
          /\ (InstOpcode = 51 /\ InstFunct3 \in {1, 5} /\ InstFunct7 \in {0, 32}
              /\ Rs2 = {6} /\ ret.tag = "Ok") => regs[InstRd] = Rs1
          /\ Is(59, 1, 0) => Result(Sext(Shl(a32, sh5), 32))
          /\ Is(59, 5, 0) => Result(Sext(Shr(a32, sh5), 32))
          /\ Is(59, 5, 32) => Result(Sar(Sext(a32, 32), sh5))

\* sll t0, t1, t2 with t1 = -8 and t2 = 64: t0 = -8.
C24_Witness ==
    /\ op = "execute"
    /\ inst = IType(51, 5, 1, 6, 7)
    /\ pre.regs[6] = 3..63
    /\ pre.regs[7] = {6}
    /\ regs[5] = 3..63

\* C25: slliw, srliw and sraiw with bit 5 of the immediate, bit 25 of the word,
\* set are reserved: execute returns IllegalInstruction and rd is unchanged.
C25_ReservedWordShifts ==
    (op = "execute" /\ InstOpcode = 27 /\ InstFunct3 \in {1, 5} /\ 25 \in inst)
    => /\ ret.tag = "Err"
       /\ ret.e = Exc("IllegalInstruction", inst)
       /\ regs[InstRd] = pre.regs[InstRd]

\* C26: a load reads at rs1 + the sign-extended imm[11:0]; lb, lh and lw
\* sign-extend the 8, 16 or 32 bits read, lbu, lhu and lwu zero-extend them,
\* and ld loads all 64 bits.
C26_Loads ==
    (op = "execute" /\ InstOpcode = 3 /\ InstFunct3 \in 0..6)
    => LET size == CASE InstFunct3 \in {0, 4} -> 8
                     [] InstFunct3 \in {1, 5} -> 16
                     [] InstFunct3 \in {2, 6} -> 32
                     [] OTHER -> 64
           r == Bus_load(pre.bus, wrapping_add(Rs1, ImmI), size)
       IN r.tag = "Ok"
          => /\ ret.tag = "Ok"
             /\ regs[InstRd] = IF InstFunct3 \in {0, 1, 2} THEN Sext(r.val, size)
                               ELSE Zext(r.val, size)

\* lh t0, -4(t1) with t1 = 0x8000_0008 reads 0xffff at 0x8000_0004: t0 = -1.
C26_Witness ==
    /\ op = "execute"
    /\ inst = IType(3, 5, 1, 6, 4092)
    /\ pre.regs[6] = {3, 31}
    /\ regs[5] = 0..63

C28_InitialHart ==
    op = "new"
    => /\ pc = DRAM_BASE
       /\ regs[2] = wrapping_add(DRAM_BASE, W(DRAM_SIZE))
       /\ \A i \in (0..31) \ {2} : regs[i] = Zero
       /\ mode = Machine

\* C29: jal writes pc + 4 to rd and returns pc + the sign-extended J-type
\* immediate imm[20|10:1|11|19:12] with bit 0 zero, forward and backward, and
\* the run loop makes that the next pc.
C29_Jal ==
    /\ (op = "execute" /\ InstOpcode = 111)
       => /\ ret.tag = "Ok"
          /\ regs[InstRd] = wrapping_add(pre.pc, W(4))
          /\ ret.new_pc = wrapping_add(pre.pc, ImmJ)
    /\ (op = "set_pc" /\ InstOpcode = 111)
       => pc = wrapping_add(DRAM_BASE, ImmJ)

\* jal a0, 42 at DRAM_BASE (test_jal): a0 = DRAM_BASE + 4 and pc = DRAM_BASE + 42.
C29_Witness ==
    /\ op = "set_pc"
    /\ inst = {0, 1, 2, 3, 5, 6, 8, 10, 21, 23, 25}
    /\ regs[10] = DRAM_BASE \cup {2}
    /\ pc = DRAM_BASE \cup {1, 3, 5}

ShiftRight(x, sh, fill) == {i \in 0..63 : IF i + sh <= 63 THEN i + sh \in x ELSE fill}

\* C30: srai and sra shift right filling with the sign bit, srli and srl with
\* zeros; for OP-IMM funct3 = 5 the shift is chosen by funct7 >> 1, 0x00 srli,
\* 0x10 srai, and anything else is IllegalInstruction.
C30_RightShifts ==
    /\ (op = "execute" /\ InstOpcode = 19 /\ InstFunct3 = 5)
       => LET sel == InstFunct7 \div 2
              sh == Field(inst, 20, 6)
          IN CASE sel = 0 -> ret.tag = "Ok" /\ regs[InstRd] = ShiftRight(Rs1, sh, FALSE)
               [] sel = 16 -> ret.tag = "Ok" /\ regs[InstRd] = ShiftRight(Rs1, sh, 63 \in Rs1)
               [] OTHER -> ret.tag = "Err" /\ ret.e = Exc("IllegalInstruction", inst)
    /\ (op = "execute" /\ InstOpcode = 51 /\ InstFunct3 = 5 /\ InstFunct7 \in {0, 32})
       => /\ ret.tag = "Ok"
          /\ regs[InstRd] = ShiftRight(Rs1, Field(Rs2, 0, 6), InstFunct7 = 32 /\ 63 \in Rs1)

\* srai t0, t1, 2 with t1 = -8 (test_sra_srl): t0 = -2 = 0xFFFFFFFFFFFFFFFE.
C30_Witness ==
    /\ op = "execute"
    /\ inst = IType(19, 5, 5, 6, 1026)
    /\ pre.regs[6] = 3..63
    /\ regs[5] = 1..63

(***************************************************************************)
(* Properties of trap delivery and of faulting instructions.               *)
(***************************************************************************)
\* C31: an exception raised in Machine mode is never delegated: it is taken in
\* Machine mode, mepc, mcause and mtval are written and sepc, scause and stval
\* keep their values, whatever medeleg holds.
C31_MachineNotDelegated ==
    (Delivered /\ pre.mode = Machine)
    => /\ mode = Machine
       /\ Csr_load(csr, MEPC) = pre.pc
       /\ Csr_load(csr, MCAUSE) = W(DeliveredCode)
       /\ Csr_load(csr, MTVAL) = ret.e.val
       /\ Csr_load(csr, SEPC) = Csr_load(pre.csr, SEPC)
       /\ Csr_load(csr, SCAUSE) = Csr_load(pre.csr, SCAUSE)
       /\ Csr_load(csr, STVAL) = Csr_load(pre.csr, STVAL)

\* An illegal instruction raised in Machine mode with medeleg bit 2 set.
C31_Witness ==
    /\ Delivered
    /\ pre.mode = Machine
    /\ ret.e.variant = "IllegalInstruction"
    /\ DeliveredCode \in Csr_load(pre.csr, MEDELEG)
    /\ mode = Machine
    /\ Csr_load(csr, MTVAL) = UNIMP
    /\ Csr_load(csr, SCAUSE) = Zero

\* C32: a load or store whose bus access returns an exception commits nothing:
\* execute returns that exception with every general-purpose register, rd
\* included, the pc and memory unchanged, and the EPC the trap delivery then
\* saves is the address of the faulting instruction.
C32_NoPartialCommit ==
    LET fault == ret.tag = "Err"
                 /\ ret.e.variant \in {"LoadAccessFault", "StoreAMOAccessFault"}
    IN /\ (op = "execute" /\ InstOpcode \in {3, 35} /\ fault)
          => /\ regs = pre.regs
             /\ pc = pre.pc
             /\ dram = pre.bus.dram
             /\ uart = pre.bus.uart
       /\ (FromExecute /\ InstOpcode \in {3, 35} /\ fault)
          => /\ Last(trace).pc = pre.pc
             /\ Csr_load(csr, IF mode = Supervisor THEN SEPC ELSE MEPC) = Last(trace).pc

\* C33: a multi-byte load or store whose first byte is in the DRAM range and
\* whose last byte is beyond the end of DRAM returns an access fault: it does
\* not read or write out of bounds and does not abort the emulator.
C33_DramEndFaults ==
    LET last == wrapping_add(ret.addr, W(ret.size \div 8 - 1))
        crossing == InRange(ret.addr, DRAM_BASE, DRAM_END) /\ ULt(DRAM_END, last)
    IN /\ (op = "load" /\ crossing)
          => (ret.tag = "Err" /\ ret.e = Exc("LoadAccessFault", ret.addr) /\ BusUnchanged)
       /\ (op = "store" /\ crossing)
          => (ret.tag = "Err" /\ ret.e = Exc("StoreAMOAccessFault", ret.addr) /\ BusUnchanged)

\* C34: the current mode is always one of User, Supervisor and Machine, and
\* mret and sret complete without aborting the emulator for every mstatus the
\* guest can write, MPP = 0b10 included.
C34_ModeValid ==
    /\ mode \in Modes
    /\ (op = "execute" /\ Last(trace).inst \in {MRET, SRET}) => ret.tag # "panic"

\* C35: trap delivery never lowers privilege: after handle_exception the mode
\* is Supervisor or Machine, at least as privileged as the mode the exception
\* was raised in, and the interrupt-enable bit of that mode, SIE or MIE, is 0.
C35_TrapNeverLowers ==
    Delivered
    => /\ mode \in {Supervisor, Machine}
       /\ mode >= pre.mode
       /\ IF mode = Supervisor THEN 1 \notin Csr_load(csr, SSTATUS)
                               ELSE 3 \notin Csr_load(csr, MSTATUS)

\* A delegated exception raised in S-mode with SIE set: taken in S-mode, SIE 0.
C35_Witness ==
    /\ Delivered
    /\ pre.mode = Supervisor
    /\ 1 \in Csr_load(pre.csr, SSTATUS)
    /\ mode = Supervisor
    /\ 1 \notin Csr_load(csr, SSTATUS)

(***************************************************************************)
(* uart.rs: the receive thread against a guest that polls: it loads LSR,   *)
(* and loads RHR only after a load of LSR that had RX set.  The guest      *)
(* stops after MaxInput + 1 bytes.                                         *)
(***************************************************************************)
\* lb from LSR: bus.load(UART_BASE + UART_LSR, 8)
GuestPoll ==
    /\ MutexFree
    /\ LET r == Bus_load(Hart.bus, wrapping_add(UART_BASE, W(UART_LSR)), 8)
       IN /\ r.tag = "Ok"
          /\ uart' = r.bus.uart
          /\ rx_pc' = r.bus.rx_pc
          /\ seen' = (ByteAnd(SumPow(r.val), MASK_UART_LSR_RX) = 1)
    /\ op' = "load_lsr"
    /\ UNCHANGED <<hart_vars, loop_vars, pre, interrupt, byte, stdin, eof, unread, fresh,
                   polled, sent, got>>

\* lb from RHR once RX was seen set: bus.load(UART_BASE + UART_RHR, 8)
GuestRead ==
    /\ MutexFree
    /\ seen
    /\ Len(got) <= MaxInput
    /\ LET r == Bus_load(Hart.bus, wrapping_add(UART_BASE, W(UART_RHR)), 8)
       IN /\ r.tag = "Ok"
          /\ uart' = r.bus.uart
          /\ rx_pc' = r.bus.rx_pc
          /\ got' = Append(got, SumPow(r.val))
    /\ seen' = FALSE
    /\ unread' = FALSE
    /\ op' = "load_rhr"
    /\ UNCHANGED <<hart_vars, loop_vars, pre, interrupt, byte, stdin, eof, fresh, polled, sent>>

SpecPoll == InitRx /\ [][RxStep \/ RxSpurious \/ GuestPoll \/ GuestRead]_vars

\* C36: when the guest loads RHR only after it has seen LSR.RX set, the bytes it
\* reads are the bytes the receive thread read from stdin, in the same order,
\* none lost and none delivered twice, under every interleaving.
C36_InOrderDelivery ==
    /\ Len(got) <= Len(sent)
    /\ \A i \in 1..Len(got) : got[i] = sent[i]

====
